---------------------------- MODULE Spec2Model ----------------------------
(***************************************************************************)
(* A model of the DevSkim rule engine: rule validation, pattern            *)
(* compilation and scanning, scope classification, inline suppression      *)
(* directives, override resolution and the worker's rule-set lifecycle.    *)
(*                                                                         *)
(* Text is modelled as a sequence of lexical tokens; a token is one        *)
(* character ("a", "(", "\n") or one comment delimiter ("//", "/*", "*/"). *)
(* Offsets, lines and columns are counted in tokens and are zero-based, as *)
(* in the source.                                                          *)
(***************************************************************************)
EXTENDS Integers, Sequences, FiniteSets, TLC

VARIABLES
    textCall,      \* the pending call of a text function (scope, regex, range)
    textRet,       \* what that call returned
    supCall,       \* the pending call of isFindingCommented
    supRet,        \* what that call returned
    ovCall,        \* the pending call of processOverrides
    ovRet,         \* what that call returned
    valCall,       \* the pending call of validateRules
    valRet,        \* what that call, and the call on its result, returned
    analysisRules, \* DevSkimWorker.analysisRules
    tempRules,     \* DevSkimWorker.tempRules (an array, or deleted)
    loads,         \* the readFiles walks in flight: the files each has read
    loadsStarted,  \* the calls of loadRules so far
    loadErrors,    \* the exceptions that ended a walk, oldest first
    openDoc,       \* the document under analysis, with the clock
    analyses,      \* the analyzeText calls made: what each read and returned
    srvDocument,   \* the open document of the server: version and findings
    codeActions,   \* DevSkimWorker.codeActions[uri] for that document
    runs,          \* the validateTextDocument calls made, each at its await
    microtasks     \* the continuations ready to run, first in first out

vars == <<textCall, textRet, supCall, supRet, ovCall, ovRet, valCall, valRet,
          analysisRules, tempRules, loads, loadsStarted, loadErrors, openDoc, analyses,
          srvDocument, codeActions, runs, microtasks>>

textVars == <<textCall, textRet>>
supVars == <<supCall, supRet>>
ovVars == <<ovCall, ovRet>>
valVars == <<valCall, valRet>>
wkVars == <<analysisRules, tempRules, loads, loadsStarted, loadErrors, openDoc, analyses>>
srvVars == <<srvDocument, codeActions, runs, microtasks>>

\* a function that has no call pending, and a call that has not returned
NoCall == [fn |-> "none"]
NotReturned == [done |-> FALSE]

IdleText == textCall = NoCall /\ textRet = NotReturned
IdleSup == supCall = NoCall /\ supRet = NotReturned
IdleOv == ovCall = NoCall /\ ovRet = NotReturned
IdleVal == valCall = NoCall /\ valRet = NotReturned

\* no worker has been constructed
IdleWk ==
    /\ analysisRules = <<>>
    /\ tempRules = [isArray |-> FALSE, items |-> <<>>]
    /\ loads = <<>>
    /\ loadsStarted = 0
    /\ loadErrors = <<>>
    /\ openDoc = NoCall
    /\ analyses = <<>>

\* no server has been started
IdleSrv ==
    /\ srvDocument = [version |-> 0, problems |-> <<>>]
    /\ codeActions = <<>>
    /\ runs = <<>>
    /\ microtasks = <<>>

\* everything but the text functions' variables, and so on
OtherThanText == <<supVars, ovVars, valVars, wkVars, srvVars>>
OtherThanSup == <<textVars, ovVars, valVars, wkVars, srvVars>>
OtherThanOv == <<textVars, supVars, valVars, wkVars, srvVars>>
OtherThanVal == <<textVars, supVars, ovVars, wkVars, srvVars>>
OtherThanWk == <<textVars, supVars, ovVars, valVars, srvVars>>
OtherThanSrv == <<textVars, supVars, ovVars, valVars, wkVars>>
AllIdleButText == IdleSup /\ IdleOv /\ IdleVal /\ IdleWk /\ IdleSrv
AllIdleButSup == IdleText /\ IdleOv /\ IdleVal /\ IdleWk /\ IdleSrv
AllIdleButOv == IdleText /\ IdleSup /\ IdleVal /\ IdleWk /\ IdleSrv
AllIdleButVal == IdleText /\ IdleSup /\ IdleOv /\ IdleWk /\ IdleSrv
AllIdleButWk == IdleText /\ IdleSup /\ IdleOv /\ IdleVal /\ IdleSrv
AllIdleButSrv == IdleText /\ IdleSup /\ IdleOv /\ IdleVal /\ IdleWk

(***************************************************************************)
(* String helpers (JavaScript semantics, zero-based).                      *)
(***************************************************************************)
\* s.substr(from)
SubstrFrom(s, from) == SubSeq(s, from + 1, Len(s))

\* s.substr(from, len)
Substr(s, from, len) == SubSeq(s, from + 1, from + len)

\* s.indexOf(t) for a single token t
IndexOf(s, t) ==
    IF \E i \in 1..Len(s) : s[i] = t
    THEN (CHOOSE i \in 1..Len(s) : s[i] = t /\ \A j \in 1..(i-1) : s[j] # t) - 1
    ELSE -1

\* s.lastIndexOf(t) for a single token t
LastIndexOf(s, t) ==
    IF \E i \in 1..Len(s) : s[i] = t
    THEN (CHOOSE i \in 1..Len(s) : s[i] = t /\ \A j \in (i+1)..Len(s) : s[j] # t) - 1
    ELSE -1

\* all sequences over S of length 0..n
SeqsUpTo(S, n) == UNION { [1..k -> S] : k \in 0..n }

(***************************************************************************)
(* RuleValidator (the revision with makeRule / makeRuleNoValidation).      *)
(*                                                                         *)
(* A JSON string value is a token; Undefined stands for an absent key,     *)
(* NotAString for a value of another type.  A JSON array value is a record *)
(* with its items; NoArray is an absent key.  Every validate* operator     *)
(* returns what the method returns (val), whether it threw, the outcomes   *)
(* it pushed on outputMessages (msgs) and whether it set writeoutNewRules  *)
(* (write).  The rule and pattern texts are lower case already.            *)
(***************************************************************************)
Undefined == "undefined"
NotAString == "<number>"
NoArray == [isArray |-> FALSE, items |-> <<>>]
Arr(items) == [isArray |-> TRUE, items |-> items]

Msg(alert, message) == [alert |-> alert, message |-> message]
Ok(val, msgs, write) == [threw |-> FALSE, val |-> val, msgs |-> msgs, write |-> write]
Thrown(msgs, write) == [threw |-> TRUE, val |-> Undefined, msgs |-> msgs, write |-> write]

\* evaluate first, then Rest on its value
Then(first, Rest(_)) == CHOOSE v \in { Rest(x) : x \in {first} } : TRUE

\* the rest of a method after a call that may have thrown
After(prev, res) ==
    IF prev.threw THEN prev
    ELSE Then(res, LAMBDA r :
           [threw |-> r.threw, val |-> r.val, msgs |-> prev.msgs \o r.msgs,
            write |-> prev.write \/ r.write])

\* the value returned is val
Returning(res, val) == IF res.threw THEN res ELSE [res EXCEPT !.val = val]

\* RuleValidator.isSet for a string and for an array
isSetString(variable) == variable \notin {Undefined, ""}
isSetArray(variable) == variable.isArray /\ Len(variable.items) >= 1

\* RuleValidator.verifyType, cases "string" and "array"
verifyTypeString(variable) == variable \notin {Undefined, NotAString}
verifyTypeArray(variable) == variable.isArray

\* RuleValidator.checkValue followed by verifyType; val is the boolean returned
checkValue(isSet, verifiedType, errorMessage, alertLevel) ==
    LET missing == ~isSet /\ errorMessage # ""
        m1 == IF missing THEN <<Msg(alertLevel, errorMessage)>> ELSE <<>>
    IN IF missing /\ alertLevel = "Error" THEN Thrown(m1, FALSE)
       ELSE IF ~verifiedType /\ errorMessage # ""
       THEN IF alertLevel = "Error"
            THEN Thrown(m1 \o <<Msg(alertLevel, errorMessage)>>, FALSE)
            ELSE Ok(FALSE, m1 \o <<Msg(alertLevel, errorMessage)>>, FALSE)
       ELSE Ok(verifiedType, m1, FALSE)

checkValueString(variable, errorMessage, alertLevel) ==
    checkValue(isSetString(variable), verifyTypeString(variable), errorMessage, alertLevel)

checkValueArray(variable, errorMessage, alertLevel) ==
    checkValue(isSetArray(variable), verifyTypeArray(variable), errorMessage, alertLevel)

\* /\b(DS\d\d\d\d\d\d)\b/.test(id)
IsDSId(id) == id \in {"DS000001", "DS000002"}

\* The validators of single strings are handed to validateStringArray as bare
\* function values and called without a receiver, so `this.outputMessages`
\* in their warning branch raises a TypeError instead of recording a Warning.
validateSpecificOverride(overridden) ==
    IF IsDSId(overridden) THEN Ok(overridden, <<>>, FALSE) ELSE Thrown(<<>>, FALSE)

validateSpecificScope(scope) ==
    IF scope \in {"code", "any", "comment", "html"} THEN Ok(scope, <<>>, FALSE)
    ELSE Thrown(<<>>, FALSE)

validateSpecificPatternModifiers(modifier) ==
    IF modifier \in {"i", "d", "m"} THEN Ok(modifier, <<>>, FALSE)
    ELSE Thrown(<<>>, FALSE)

validateSpecificAppliesTo(applies) == Ok(applies, <<>>, FALSE)
validateSpecificTags(tags) == Ok(tags, <<>>, FALSE)

stringValidator(arrayName, strings) ==
    CASE arrayName = "overrides" -> validateSpecificOverride(strings)
      [] arrayName = "scopes" -> validateSpecificScope(strings)
      [] arrayName = "pattern.modifiers" -> validateSpecificPatternModifiers(strings)
      [] arrayName = "applies_to" -> validateSpecificAppliesTo(strings)
      [] OTHER -> validateSpecificTags(strings)

\* the loop of validateStringArray over the items from k on
RECURSIVE ValidateStrings(_, _, _, _)
ValidateStrings(items, k, arrayName, acc) ==
    IF acc.threw \/ k > Len(items) THEN acc
    ELSE
      Then(After(acc, checkValueString(items[k],
                         "a value of type other than string present in array", "Warning")),
        LAMBDA checked :
          IF checked.val = TRUE
          THEN Then(After(checked, stringValidator(arrayName, items[k])),
                 LAMBDA one :
                   ValidateStrings(items, k + 1, arrayName,
                                   Returning(one, Append(acc.val, one.val))))
          ELSE ValidateStrings(items, k + 1, arrayName, Returning(checked, acc.val)))

\* RuleValidator.validateStringArray (an array that is set is never empty, so
\* the Info outcome for an empty array is never recorded)
validateStringArray(arrayToValidate, arrayName) ==
    IF isSetArray(arrayToValidate)
    THEN ValidateStrings(arrayToValidate.items, 1, arrayName, Ok(<<>>, <<>>, FALSE))
    ELSE Ok(<<>>, <<>>, FALSE)

\* RuleValidator.validatePatternScopeArray: the default is pushed on the
\* argument, not on the result
validatePatternScopeArray(scope) ==
    Then(validateStringArray(scope, "scopes"), LAMBDA scopes :
      IF scopes.threw THEN scopes
      ELSE IF Len(scopes.val) = 0 /\ ~scope.isArray THEN Thrown(scopes.msgs, FALSE)
      ELSE scopes)

validateName(loadedRule) ==
    Returning(checkValueString(loadedRule.name, "name value is missing from object", "Error"),
              loadedRule.name)

validateID(loadedRule) ==
    After(checkValueString(loadedRule.id, "id is missing from rule", "Error"),
          Ok(loadedRule.id,
             IF IsDSId(loadedRule.id) THEN <<>>
             ELSE <<Msg("Warning", "id is not in the expected format of DS######")>>,
             FALSE))

validateDescription(loadedRule) ==
    Returning(checkValueString(loadedRule.description,
                               "description value is missing from object", "Error"),
              loadedRule.description)

validateRecommendation(loadedRule) ==
    Then(checkValueString(loadedRule.recommendation,
                          "recommendation value is missing from object", "Warning"),
      LAMBDA c :
        IF c.val THEN [c EXCEPT !.val = loadedRule.recommendation]
        ELSE Then(After(c, checkValueString(loadedRule.replacement,
                              "recommendation value is missing from object", "Warning")),
               LAMBDA o :
                 IF o.val THEN [o EXCEPT !.val = loadedRule.replacement, !.write = TRUE]
                 ELSE [o EXCEPT !.val = ""]))

validateSeverity(loadedRule) ==
    LET severity == loadedRule.severity
    IN After(checkValueString(severity, "severity value is missing from object", "Error"),
         IF severity \in {"critical", "important", "moderate", "best-practice",
                          "manual-review"}
         THEN Ok(severity, <<>>, FALSE)
         ELSE IF severity = "manual_review"
         THEN Ok("manual-review", <<Msg("Warning", "manual_review")>>, TRUE)
         ELSE IF severity \in {"best_practice", "low", "defense-in-depth",
                               "defense_in_depth"}
         THEN Ok("best-practice", <<Msg("Warning", "best-practice")>>, TRUE)
         ELSE Thrown(<<Msg("Error", "Unknown severity in rule")>>, FALSE))

\* the while loop of validateRuleInfo; info is a sequence of tokens
RECURSIVE RuleInfoLoop(_, _)
RuleInfoLoop(info, acc) ==
    LET slashIndex == LastIndexOf(info, "/")
    IN IF slashIndex = -1 THEN [acc EXCEPT !.val = info]
       ELSE IF slashIndex = Len(info) - 1
       THEN RuleInfoLoop(Substr(info, 0, Len(info) - 1),
                [acc EXCEPT !.msgs = @ \o <<Msg("Warning", "rule_info has a trailing slash")>>,
                            !.write = TRUE])
       ELSE [acc EXCEPT !.val = SubstrFrom(info, slashIndex + 1),
                        !.msgs = @ \o <<Msg("Warning", "rule_info is no longer a full url")>>,
                        !.write = TRUE]

validateRuleInfo(loadedRule) ==
    Then(checkValue(Len(loadedRule.rule_info) >= 1, TRUE,
                    "rule_info value is missing from object", "Error"),
      LAMBDA c : IF c.threw THEN c ELSE RuleInfoLoop(loadedRule.rule_info, c))

validatePatternType(patternType) ==
    After(checkValueString(patternType, "pattern.type value is missing from object", "Error"),
         IF patternType \in {"regex", "regex-word", "string", "substring"}
         THEN Ok(patternType, <<>>, FALSE)
         ELSE IF patternType = "regex_word"
         THEN Ok("regex-word", <<Msg("Warning", "regex_word")>>, TRUE)
         ELSE Thrown(<<Msg("Error", "Unknown pattern.type in rule")>>, FALSE))

\* the scopes part of validatePatternObject
validatePatternScopes(loadedPattern) ==
    IF isSetArray(loadedPattern.scopes) /\ verifyTypeArray(loadedPattern.scopes)
    THEN validatePatternScopeArray(loadedPattern.scopes)
    ELSE IF isSetString(loadedPattern.scope) /\ verifyTypeString(loadedPattern.scope)
    THEN Then(validatePatternScopeArray(Arr(<<loadedPattern.scope>>)), LAMBDA scopes :
           IF scopes.threw THEN scopes
           ELSE [scopes EXCEPT
                   !.msgs = @ \o <<Msg("Warning",
                                       "pattern.scope has been changed to pattern.scopes")>>,
                   !.write = TRUE])
    ELSE Ok(<<"code">>, <<>>, FALSE)

validatePatternObject(loadedPattern) ==
    Then(checkValueString(loadedPattern.pattern,
                          "pattern.patten regex value is missing from object", "Error"),
      LAMBDA p :
    Then(After(p, validatePatternType(loadedPattern.type)), LAMBDA type :
    Then(After(type, validatePatternScopes(loadedPattern)), LAMBDA scopes :
    Then(After(scopes, validateStringArray(loadedPattern.modifiers, "pattern.modifiers")),
      LAMBDA modifiers :
        Returning(modifiers,
                  [pattern |-> loadedPattern.pattern,
                   type |-> type.val,
                   scopes |-> Arr(scopes.val),
                   scope |-> Undefined,
                   modifiers |-> IF Len(modifiers.val) > 0 THEN Arr(modifiers.val)
                                 ELSE NoArray])))))

\* RuleValidator.validatePatternsArray
RECURSIVE ValidatePatterns(_, _, _)
ValidatePatterns(items, k, acc) ==
    IF acc.threw \/ k > Len(items) THEN acc
    ELSE Then(After(acc, validatePatternObject(items[k])), LAMBDA one :
           ValidatePatterns(items, k + 1, Returning(one, Append(acc.val, one.val))))

validatePatternsArray(loadedRule) ==
    Then(checkValueArray(loadedRule.patterns, "patterns value is missing from object",
                         "Error"),
      LAMBDA c : IF c.threw THEN c
                 ELSE ValidatePatterns(loadedRule.patterns.items, 1, Returning(c, <<>>)))

NoPattern == [pattern |-> Undefined, type |-> Undefined, scopes |-> NoArray,
              scope |-> Undefined, modifiers |-> NoArray]

validateFixitName(fixitName) ==
    Returning(checkValueString(fixitName, "fix_its.name value is missing from object",
                               "Error"),
              fixitName)

validateFixitType(fixitType) ==
    After(checkValueString(fixitType, "fix_its.type value is missing from object", "Error"),
         IF fixitType \in {"regex-replace", "string-replace"} THEN Ok(fixitType, <<>>, FALSE)
         ELSE IF fixitType = "regex-substitute"
         THEN Ok("regex-replace", <<Msg("Warning", "regex-substitute")>>, TRUE)
         ELSE Thrown(<<Msg("Error", "fix_its.type is not either regex-replace or string-replace")>>,
                     FALSE))

validateFixitObject(loadedFixit) ==
    Then(validateFixitName(loadedFixit.name), LAMBDA name :
    Then(After(name, validateFixitType(loadedFixit.type)), LAMBDA type :
    Then(After(type,
           IF isSetString(loadedFixit.replacement)
           THEN Ok(loadedFixit.replacement, <<>>, FALSE)
           ELSE After(checkValueString(loadedFixit.replace,
                         "fix_its.replacement value is missing from object", "Error"),
                      Ok(loadedFixit.replace,
                         <<Msg("Warning", "fix_its.replace has been changed")>>, TRUE))),
      LAMBDA replacement :
    Then(After(replacement,
           IF loadedFixit.pattern # NoPattern
           THEN validatePatternObject(loadedFixit.pattern)
           ELSE After(checkValueString(loadedFixit.search,
                         "fix_its.pattern value is missing from object", "Error"),
                      Ok([pattern |-> loadedFixit.search, type |-> "regex",
                          scopes |-> Arr(<<"code">>), scope |-> Undefined,
                          modifiers |-> NoArray],
                         <<Msg("Warning", "fix_its.search has been changed")>>, TRUE))),
      LAMBDA pattern :
        Returning(pattern,
                  [name |-> name.val, type |-> type.val, replacement |-> replacement.val,
                   replace |-> Undefined, pattern |-> pattern.val, search |-> Undefined])))))

RECURSIVE ValidateFixits(_, _, _)
ValidateFixits(items, k, acc) ==
    IF acc.threw \/ k > Len(items) THEN acc
    ELSE Then(After(acc, validateFixitObject(items[k])), LAMBDA one :
           ValidateFixits(items, k + 1, Returning(one, Append(acc.val, one.val))))

validateFixitArray(loadedRule) ==
    IF checkValueArray(loadedRule.fix_its, "", "Info").val
    THEN ValidateFixits(loadedRule.fix_its.items, 1, Ok(<<>>, <<>>, FALSE))
    ELSE IF checkValueArray(loadedRule.fix_it, "", "Info").val
    THEN IF Len(loadedRule.fix_it.items) > 0
         THEN Then(ValidateFixits(loadedRule.fix_it.items, 1, Ok(<<>>, <<>>, TRUE)),
                LAMBDA f :
                  IF f.threw THEN f
                  ELSE [f EXCEPT
                          !.msgs = @ \o <<Msg("Warning", "'fix_it' was renamed 'fix_its'")>>])
         ELSE Ok(<<>>, <<Msg("Warning", "'fix_it'was present but empty")>>, FALSE)
    ELSE Ok(<<>>, <<>>, FALSE)

ArrayOrUnset(items) == IF Len(items) > 0 THEN Arr(items) ELSE NoArray

\* RuleValidator.makeRule
makeRule(loadedRule) ==
    Then(validateName(loadedRule), LAMBDA name :
    Then(After(name, validateID(loadedRule)), LAMBDA id :
    Then(After(id, validateDescription(loadedRule)), LAMBDA description :
    Then(After(description, validateRecommendation(loadedRule)), LAMBDA recommendation :
    Then(After(recommendation, validateStringArray(loadedRule.overrides, "overrides")),
      LAMBDA overrides :
    Then(After(overrides, validateStringArray(loadedRule.applies_to, "applies_to")),
      LAMBDA applies :
    Then(After(applies, validateStringArray(loadedRule.tags, "tags")), LAMBDA tags :
    Then(After(tags, validateSeverity(loadedRule)), LAMBDA severity :
    Then(After(severity, validateRuleInfo(loadedRule)), LAMBDA rule_info :
    Then(After(rule_info, validatePatternsArray(loadedRule)), LAMBDA patterns :
    Then(After(patterns, validateFixitArray(loadedRule)), LAMBDA fixits :
        Returning(fixits,
          [name |-> name.val, id |-> id.val, description |-> description.val,
           recommendation |-> recommendation.val, replacement |-> Undefined,
           overrides |-> ArrayOrUnset(overrides.val),
           applies_to |-> ArrayOrUnset(applies.val),
           tags |-> ArrayOrUnset(tags.val),
           severity |-> severity.val, rule_info |-> rule_info.val,
           patterns |-> Arr(patterns.val),
           fix_its |-> ArrayOrUnset(fixits.val), fix_it |-> NoArray]))))))))))))

\* the loop of makeRuleNoValidation over newRule.patterns
RECURSIVE ScopePatterns(_, _, _)
ScopePatterns(items, k, acc) ==
    IF acc.threw \/ k > Len(items) THEN acc
    ELSE Then(After(acc, validatePatternScopeArray(items[k].scopes)), LAMBDA one :
           ScopePatterns(items, k + 1,
              Returning(one, Append(acc.val, [items[k] EXCEPT !.scopes = Arr(one.val)]))))

\* RuleValidator.makeRuleNoValidation: `.length` of an absent array and
\* `.toLowerCase()` of an absent severity raise a TypeError
makeRuleNoValidation(loadedRule) ==
    IF \/ ~loadedRule.overrides.isArray
       \/ ~loadedRule.applies_to.isArray
       \/ ~loadedRule.tags.isArray
       \/ ~verifyTypeString(loadedRule.severity)
       \/ ~loadedRule.patterns.isArray
    THEN Thrown(<<>>, FALSE)
    ELSE
      Then(ScopePatterns(loadedRule.patterns.items, 1, Ok(<<>>, <<>>, FALSE)),
        LAMBDA patterns :
          Returning(patterns,
                 [name |-> loadedRule.name, id |-> loadedRule.id,
                  description |-> loadedRule.description,
                  recommendation |-> loadedRule.recommendation, replacement |-> Undefined,
                  overrides |-> ArrayOrUnset(loadedRule.overrides.items),
                  applies_to |-> ArrayOrUnset(loadedRule.applies_to.items),
                  tags |-> ArrayOrUnset(loadedRule.tags.items),
                  severity |-> loadedRule.severity, rule_info |-> loadedRule.rule_info,
                  patterns |-> Arr(patterns.val),
                  fix_its |-> loadedRule.fix_it, fix_it |-> NoArray]))

\* the loop of validateRules: the try / catch drops the candidate that threw;
\* from lists the input indexes of the rules pushed
RECURSIVE ValidateFrom(_, _, _, _)
ValidateFrom(readRules, k, outputValidation, acc) ==
    IF k > Len(readRules) THEN acc
    ELSE
      Then(IF outputValidation THEN makeRule(readRules[k])
           ELSE makeRuleNoValidation(readRules[k]),
        LAMBDA made :
          Then([rules |-> IF made.threw THEN acc.rules ELSE Append(acc.rules, made.val),
                from |-> IF made.threw THEN acc.from ELSE Append(acc.from, k),
                outputMessages |-> acc.outputMessages \o made.msgs,
                writeoutNewRules |-> acc.writeoutNewRules \/ made.write],
            LAMBDA next : ValidateFrom(readRules, k + 1, outputValidation, next)))

\* RuleValidator.validateRules
validateRules(readRules, outputValidation) ==
    ValidateFrom(readRules, 1, outputValidation,
                 [rules |-> <<>>, from |-> <<>>, outputMessages |-> <<>>,
                  writeoutNewRules |-> FALSE])

(***************************************************************************)
(* Scope classifier.                                                       *)
(***************************************************************************)
GetLineComment(langID) ==
    CASE langID = "c" -> "//"
      [] langID = "python" -> "#"
      [] OTHER -> ""

GetBlockCommentStart(langID) ==
    CASE langID = "c" -> "/*"
      [] langID = "html" -> "<!--"
      [] OTHER -> ""

GetBlockCommentEnd(langID) ==
    CASE langID = "c" -> "*/"
      [] langID = "html" -> "-->"
      [] OTHER -> ""

\* IsFindingInComment looking for the line-comment prefix in the whole text
\* before the match
IsFindingInCommentAnyLine(langID, documentContents, newlineIndex) ==
    IF Len(documentContents) < 1 THEN FALSE
    ELSE \/ GetLineComment(langID) # ""
            /\ IndexOf(documentContents, GetLineComment(langID)) > -1
         \/ /\ GetBlockCommentStart(langID) # ""
            /\ GetBlockCommentEnd(langID) # ""
            /\ LastIndexOf(documentContents, GetBlockCommentStart(langID))
                 > LastIndexOf(documentContents, GetBlockCommentEnd(langID))

IsFindingInComment(langID, documentContents, newlineIndex) ==
    IF Len(documentContents) < 1 THEN FALSE
    ELSE
      LET startComment == GetLineComment(langID)
          commentText == IF newlineIndex > -1
                         THEN SubstrFrom(documentContents, newlineIndex)
                         ELSE documentContents
      IN IF startComment # "" /\ IndexOf(commentText, startComment) > -1
         THEN TRUE
         ELSE /\ GetBlockCommentStart(langID) # ""
              /\ GetBlockCommentEnd(langID) # ""
              /\ LastIndexOf(documentContents, GetBlockCommentStart(langID))
                   > LastIndexOf(documentContents, GetBlockCommentEnd(langID))

\* DocumentUtilities.MatchIsInScope (scopes is an array)
MatchIsInScope(langID, docContentsToFinding, newlineIndex, scopes) ==
    IF \E i \in 1..Len(scopes) : scopes[i] = "all" THEN TRUE
    ELSE
      LET findingInComment ==
            IsFindingInComment(langID, docContentsToFinding, newlineIndex)
      IN \E i \in 1..Len(scopes) :
            \/ (scopes[i] = "code" /\ ~findingInComment)
            \/ (scopes[i] = "comment" /\ findingInComment)

\* DevSkimWorker.matchIsInScope (scope is a single string)
matchIsInScope(langID, docContentsToFinding, newlineIndex, scope) ==
    IF scope = "all" THEN TRUE
    ELSE
      LET findingInComment ==
            IsFindingInComment(langID, docContentsToFinding, newlineIndex)
      IN \/ (scope = "code" /\ ~findingInComment)
         \/ (scope = "comment" /\ findingInComment)


(***************************************************************************)
(* Pattern compiler: DevSkimWorker.MakeRegex.  A compiled expression is a   *)
(* sequence of atoms: a literal token, "." (any token but a line break,     *)
(* unless the s flag is set) or the \b assertion.                           *)
(***************************************************************************)
BackSlash == "\\"

\* the tokens XRegExp.escape prefixes with a backslash (those the model's
\* pattern alphabet has)
MetaChars == {".", "(", ")", "*", "+", "?", "|", "^", "$"}

IsWordChar(c) == c \in {"a", "b", "c"}

RECURSIVE XRegExpEscape(_)
XRegExpEscape(pattern) ==
    IF pattern = <<>> THEN <<>>
    ELSE (IF Head(pattern) \in MetaChars
          THEN <<BackSlash, Head(pattern)>>
          ELSE <<Head(pattern)>>) \o XRegExpEscape(Tail(pattern))

\* the regex parser, for the sources the model builds
RECURSIVE ParseRegex(_)
ParseRegex(src) ==
    IF src = <<>> THEN <<>>
    ELSE IF Head(src) = BackSlash /\ Len(src) >= 2
    THEN <<(IF src[2] = "b" THEN [t |-> "wb"] ELSE [t |-> "lit", c |-> src[2]])>>
            \o ParseRegex(SubSeq(src, 3, Len(src)))
    ELSE IF Head(src) = "."
    THEN <<[t |-> "any"]>> \o ParseRegex(Tail(src))
    ELSE <<[t |-> "lit", c |-> Head(src)]>> \o ParseRegex(Tail(src))

\* XRegExp(source, flags)
XRegExp(src, flags) == [atoms |-> ParseRegex(src), flags |-> flags]

\* the regexModifer loop of MakeRegex: always "g", "d" becomes "s"
RECURSIVE RegexModifier(_)
RegexModifier(modifiers) ==
    IF modifiers = <<>> THEN <<"g">>
    ELSE LET rest == RegexModifier(SubSeq(modifiers, 1, Len(modifiers) - 1))
             mod == modifiers[Len(modifiers)]
         IN rest \o <<(IF mod = "d" THEN "s" ELSE mod)>>

\* MakeRegex with the XRegExp.escape calls left out
MakeRegexNoEscape(regexType, pattern, modifiers) ==
    LET regexModifer == RegexModifier(modifiers)
    IN CASE regexType \in {"regex-word", "string"} ->
              XRegExp(<<BackSlash, "b">> \o pattern \o <<BackSlash, "b">>, regexModifer)
         [] OTHER -> XRegExp(pattern, regexModifer)

MakeRegex(regexType, pattern, modifiers) ==
    LET regexModifer == RegexModifier(modifiers)
    IN CASE regexType = "regex-word" ->
              XRegExp(<<BackSlash, "b">> \o pattern \o <<BackSlash, "b">>, regexModifer)
         [] regexType = "string" ->
              XRegExp(<<BackSlash, "b">> \o XRegExpEscape(pattern) \o <<BackSlash, "b">>,
                      regexModifer)
         [] regexType = "substring" ->
              XRegExp(XRegExpEscape(pattern), regexModifer)
         [] OTHER -> XRegExp(pattern, regexModifer)

\* \b at offset pos of text
IsWordBoundary(text, pos) ==
    (pos > 0 /\ IsWordChar(text[pos]))
        # (pos < Len(text) /\ IsWordChar(text[pos + 1]))

HasFlag(regex, f) == \E i \in 1..Len(regex.flags) : regex.flags[i] = f

\* the offset just after a match of atoms starting at pos, or -1
RECURSIVE MatchAtoms(_, _, _, _)
MatchAtoms(atoms, regex, text, pos) ==
    IF atoms = <<>> THEN pos
    ELSE LET a == Head(atoms)
         IN IF a.t = "wb"
            THEN IF IsWordBoundary(text, pos)
                 THEN MatchAtoms(Tail(atoms), regex, text, pos) ELSE -1
            ELSE IF pos >= Len(text) THEN -1
            ELSE IF a.t = "lit"
            THEN IF text[pos + 1] = a.c
                 THEN MatchAtoms(Tail(atoms), regex, text, pos + 1) ELSE -1
            ELSE IF HasFlag(regex, "s") \/ text[pos + 1] \notin {"\n", "\r"}
                 THEN MatchAtoms(Tail(atoms), regex, text, pos + 1) ELSE -1

\* XRegExp.exec(text, regex, pos): the first match at or after pos
NoMatch == [found |-> FALSE, index |-> -1, length |-> 0]

XRegExpExec(text, regex, pos) ==
    LET hits == { i \in pos..Len(text) : MatchAtoms(regex.atoms, regex, text, i) # -1 }
    IN IF hits = {} THEN NoMatch
       ELSE LET i == CHOOSE h \in hits : \A g \in hits : h <= g
            IN [found |-> TRUE, index |-> i,
                length |-> MatchAtoms(regex.atoms, regex, text, i) - i]

(***************************************************************************)
(* Match range: the line/column arithmetic of DevSkimWorker.runAnalysis.   *)
(***************************************************************************)
\* the number of matches of /(\r\n|\n|\r)/g in s
RECURSIVE CountLineBreaks(_)
CountLineBreaks(s) ==
    IF s = <<>> THEN 0
    ELSE IF Len(s) >= 2 /\ s[1] = "\r" /\ s[2] = "\n"
    THEN 1 + CountLineBreaks(SubSeq(s, 3, Len(s)))
    ELSE IF s[1] \in {"\n", "\r"}
    THEN 1 + CountLineBreaks(Tail(s))
    ELSE CountLineBreaks(Tail(s))

getLineNumber(documentContents, currentPosition) ==
    CountLineBreaks(Substr(documentContents, 0, currentPosition))

RangeCreate(sl, sc, el, ec) ==
    [start |-> [line |-> sl, character |-> sc],
     end |-> [line |-> el, character |-> ec]]

columnEndOfFirstNewline(documentContents, index, length) ==
    length - IndexOf(SubstrFrom(documentContents, index), "\n") - 1

\* lines 310-324 of runAnalysis, for the match of `length` tokens at `index`
MatchRange(documentContents, index, length) ==
    LET lineStart == getLineNumber(documentContents, index)
        newlineIndex == IF lineStart = 0 THEN -1
                        ELSE LastIndexOf(Substr(documentContents, 0, index), "\n")
        columnStart == index - newlineIndex - 1
        replacementSource == Substr(documentContents, index, length)
        lineEnd == getLineNumber(replacementSource, Len(replacementSource)) + lineStart
        columnEnd == IF lineStart = lineEnd
                     THEN columnStart + length
                     ELSE columnEndOfFirstNewline(documentContents, index, length)
    IN RangeCreate(lineStart, columnStart, lineEnd, columnEnd)


(***************************************************************************)
(* Fixes: DevSkimWorker.makeFixes.  RegExp(source) raises a SyntaxError    *)
(* for a source it cannot compile; of the model's tokens that is a "("     *)
(* (a group that is never closed).  The constructor is called before the   *)
(* try block, so its exception leaves makeFixes.                           *)
(***************************************************************************)
RegExpCompiles(src) == \A i \in 1..Len(src) : src[i] # "("

\* replacementSource.replace(replacePattern, replacement), no g flag
StringReplace(text, regex, replacement) ==
    Then(XRegExpExec(text, regex, 0), LAMBDA m :
      IF ~m.found THEN text
      ELSE Substr(text, 0, m.index) \o replacement \o SubstrFrom(text, m.index + m.length))

\* the loop of makeFixes, fixIndex counted from 0 and going down
RECURSIVE makeFixes(_, _, _, _)
makeFixes(fix_its, fixIndex, replacementSource, fixes) ==
    IF fixIndex < 0 THEN [threw |-> FALSE, fixes |-> fixes]
    ELSE IF ~RegExpCompiles(fix_its[fixIndex + 1].pattern)
    THEN [threw |-> TRUE, fixes |-> <<>>]
    ELSE makeFixes(fix_its, fixIndex - 1, replacementSource,
                   Append(fixes,
                          [text |-> StringReplace(replacementSource,
                                                  XRegExp(fix_its[fixIndex + 1].pattern, <<>>),
                                                  fix_its[fixIndex + 1].replacement),
                           fixName |-> fix_its[fixIndex + 1].name]))

(***************************************************************************)
(* The code-action map of one document: codeActions[documentURI], a map    *)
(* from computeKey(range, code) + x to an AutoFix.  A key of the map is a   *)
(* pair <<computeKey(range, code), x>>.                                     *)
(***************************************************************************)
NoEdits == << >>

\* the x of `while (edits[computeKey(range, diagnosticCode) + x]) { x++ }`
FirstFreeIndex(edits, key) ==
    CHOOSE x \in 0..Cardinality(DOMAIN edits) :
        /\ <<key, x>> \notin DOMAIN edits
        /\ \A y \in 0..(x - 1) : <<key, y>> \in DOMAIN edits

\* DevSkimWorker.recordCodeAction on the map of one document
recordCodeAction(edits, documentVersion, key, fix, ruleID) ==
    IF ruleID = "" THEN edits
    ELSE LET at == <<key, FirstFreeIndex(edits, key)>>
         IN [k \in DOMAIN edits \cup {at} |->
               IF k = at
               THEN [label |-> fix.fixName, documentVersion |-> documentVersion,
                     ruleId |-> ruleID, edit |-> fix]
               ELSE edits[k]]

\* the loop on problem.fixes of validateTextDocument, for one problem
RECURSIVE RecordFixes(_, _, _, _, _)
RecordFixes(edits, documentVersion, key, fixes, ruleID) ==
    IF fixes = <<>> THEN edits
    ELSE RecordFixes(recordCodeAction(edits, documentVersion, key, Head(fixes), ruleID),
                     documentVersion, key, Tail(fixes), ruleID)

\* the while loop of Fixes.getScoped for one diagnostic, from index x
RECURSIVE ScopedFrom(_, _, _)
ScopedFrom(edits, key, x) ==
    IF <<key, x>> \notin DOMAIN edits THEN <<>>
    ELSE <<edits[<<key, x>>]>> \o ScopedFrom(edits, key, x + 1)

\* Fixes.getScoped
RECURSIVE getScoped(_, _)
getScoped(edits, diagnostics) ==
    IF diagnostics = <<>> THEN <<>>
    ELSE ScopedFrom(edits, Head(diagnostics), 0) \o getScoped(edits, Tail(diagnostics))


(***************************************************************************)
(* The text functions, each applied to inputs drawn from bounded sets.     *)
(***************************************************************************)
MaxScopeDoc == 2
MaxScopes == 2
MaxPatternLen == 2
MaxRegexText == 3
MaxRangeDoc == 4
MaxFixIts == 2
MaxCommentDoc == 3
MaxScanDoc == 3

ScopeLangs == {"c", "plaintext"}
ScopeTokens == {"a", "\n", "//", "/*", "*/"}
RawScopes == {"code", "comment", "html", "any", "all"}
PatternKinds == {"regex", "regex-word", "string", "substring"}
PatternTokens == {"a", "b", "."}
RegexTextTokens == {"a", "b", ".", "\n"}
RangeTokens == {"a", "\n"}

\* a rule's pattern declared with these scopes, and the scopes it has once
\* validatePatternObject accepted it
PatternWithScopes(rawScopes) == [NoPattern EXCEPT !.scopes = Arr(rawScopes)]
ValidatedScopes(rawScopes) == validatePatternScopes(PatternWithScopes(rawScopes)).val

ScopeCalls ==
    { c \in [fn : {"MatchIsInScope"}, langID : ScopeLangs,
             doc : SeqsUpTo(ScopeTokens, MaxScopeDoc),
             rawScopes : SeqsUpTo(RawScopes, MaxScopes)] :
        ~validatePatternScopes(PatternWithScopes(c.rawScopes)).threw }

RegexCalls ==
    [fn : {"MakeRegex"}, regexType : PatternKinds,
     pattern : SeqsUpTo(PatternTokens, MaxPatternLen) \ {<<>>},
     modifiers : {<<>>, <<"d">>},
     text : SeqsUpTo(RegexTextTokens, MaxRegexText)]

RangeCalls ==
    { c \in [fn : {"MatchRange"}, doc : SeqsUpTo(RangeTokens, MaxRangeDoc),
             index : 0..MaxRangeDoc, length : 0..MaxRangeDoc] :
        c.index + c.length <= Len(c.doc) }

\* the fix_its of a rule and the text its pattern matched
FixIts == [name : {"fix", "other"}, pattern : {<<"a">>, <<"b">>, <<"(", "a">>}, replacement : {<<"c">>}]
FixCalls ==
    [fn : {"makeFixes"}, fix_its : SeqsUpTo(FixIts, MaxFixIts),
     replacementSource : {<<"a">>, <<"b", "a">>}]


\* the newlineIndex runAnalysis passes with the text before a match
NewlineIndexOf(docToFinding) ==
    IF getLineNumber(docToFinding, Len(docToFinding)) = 0 THEN -1
    ELSE LastIndexOf(docToFinding, "\n")

\* the text before a match, in a language with both kinds of comment, with
\* line comments only, with block comments only, and with none
CommentLangs == {"c", "python", "html", "plaintext"}
CommentTokens == {"a", "\n", "//", "#", "/*", "*/", "<!--", "-->"}
CommentCalls ==
    [fn : {"IsFindingInComment"}, langID : CommentLangs,
     doc : SeqsUpTo(CommentTokens, MaxCommentDoc)]

\* the scan of a document for one pattern of a rule; the last pattern matches
\* the empty string at every word boundary
ScanPatternTexts == { <<"a">>, <<"a", "a">>, <<"a", ".">>, <<BackSlash, "b">> }
ScanCalls ==
    [fn : {"scan"}, pattern : ScanPatternTexts,
     text : SeqsUpTo({"a", "b", "\n"}, MaxScanDoc)]

\* `let matchPosition = 0` before the while loop
ScanStarted == [done |-> FALSE, matchPosition |-> 0, visited |-> <<>>]

\* a scan that ends visits at most one match per token; one more iteration
\* than that is followed, no further
MaxScanSteps == MaxScanDoc + 1

\* one evaluation of the while condition of runAnalysis and, on a match, one
\* run of the loop body up to `matchPosition = match.index + match[0].length`
ScanStep ==
    /\ textCall.fn = "scan"
    /\ ~textRet.done
    /\ Len(textRet.visited) < MaxScanSteps
    /\ \E match \in {XRegExpExec(textCall.text, MakeRegex("regex", textCall.pattern, <<>>),
                                  textRet.matchPosition)} :
          textRet' = IF ~match.found THEN [textRet EXCEPT !.done = TRUE]
                     ELSE [textRet EXCEPT !.matchPosition = match.index + match.length,
                                          !.visited = Append(@, match)]
    /\ UNCHANGED <<textCall, OtherThanText>>

ApplyIsFindingInComment ==
    /\ textCall.fn = "IsFindingInComment"
    /\ ~textRet.done
    /\ textRet' = [done |-> TRUE,
                   val |-> IsFindingInComment(textCall.langID, textCall.doc,
                                              NewlineIndexOf(textCall.doc))]
    /\ UNCHANGED <<textCall, OtherThanText>>

ApplyMatchIsInScope ==
    /\ textCall.fn = "MatchIsInScope"
    /\ ~textRet.done
    /\ textRet' = [done |-> TRUE,
                   val |-> MatchIsInScope(textCall.langID, textCall.doc,
                                          NewlineIndexOf(textCall.doc),
                                          ValidatedScopes(textCall.rawScopes))]
    /\ UNCHANGED <<textCall, OtherThanText>>

ApplyMakeRegex ==
    /\ textCall.fn = "MakeRegex"
    /\ ~textRet.done
    /\ textRet' = [done |-> TRUE,
                   val |-> XRegExpExec(textCall.text,
                                       MakeRegex(textCall.regexType, textCall.pattern,
                                                 textCall.modifiers), 0)]
    /\ UNCHANGED <<textCall, OtherThanText>>

ApplyMatchRange ==
    /\ textCall.fn = "MatchRange"
    /\ ~textRet.done
    /\ textRet' = [done |-> TRUE,
                   val |-> MatchRange(textCall.doc, textCall.index, textCall.length)]
    /\ UNCHANGED <<textCall, OtherThanText>>

ApplyMakeFixes ==
    /\ textCall.fn = "makeFixes"
    /\ ~textRet.done
    /\ \E made \in {makeFixes(textCall.fix_its, Len(textCall.fix_its) - 1,
                              textCall.replacementSource, <<>>)} :
          textRet' = [done |-> TRUE,
                      val |-> made,
                      scoped |-> getScoped(RecordFixes(NoEdits, 1, "key", made.fixes,
                                                       "DS000001"),
                                           <<"key">>)]
    /\ UNCHANGED <<textCall, OtherThanText>>

InitText ==
    /\ textCall \in ScopeCalls \cup RegexCalls \cup RangeCalls \cup FixCalls
                      \cup CommentCalls \cup ScanCalls
    /\ textRet = IF textCall.fn = "scan" THEN ScanStarted ELSE NotReturned
    /\ AllIdleButText

NextText ==
    \/ ApplyMatchIsInScope
    \/ ApplyMakeRegex
    \/ ApplyMatchRange
    \/ ApplyMakeFixes
    \/ ApplyIsFindingInComment
    \/ ScanStep

SpecText == InitText /\ [][NextText]_vars

\* the positions (from 1) of the text before the match that are on the
\* match's own line
OwnLine(doc) ==
    { i \in 1..Len(doc) : \A j \in i..Len(doc) : doc[j] # "\n" }

\* the last position (from 1) of token t in doc, 0 if there is none
LastAt(doc, t) ==
    IF \E i \in 1..Len(doc) : doc[i] = t
    THEN CHOOSE i \in 1..Len(doc) : doc[i] = t /\ \A j \in (i + 1)..Len(doc) : doc[j] # t
    ELSE 0

\* C21: IsFindingInComment is true exactly when the line-comment prefix of
\* the language occurs between the most recent newline and the match, or the
\* language has block-comment tokens and the last block open before the match
\* is after the last block close; with no comment tokens it is false.
C21_InCommentIff ==
    (textCall.fn = "IsFindingInComment" /\ textRet.done) =>
        LET lang == textCall.langID
            doc == textCall.doc
            inLine == /\ lang \in {"c", "python"}
                      /\ \E i \in OwnLine(doc) :
                            doc[i] = (IF lang = "c" THEN "//" ELSE "#")
            open == IF lang = "c" THEN "/*" ELSE "<!--"
            close == IF lang = "c" THEN "*/" ELSE "-->"
            inBlock == /\ lang \in {"c", "html"}
                       /\ LastAt(doc, open) > LastAt(doc, close)
        IN /\ textRet.val = (inLine \/ inBlock)
           /\ lang = "plaintext" => textRet.val = FALSE

\* the prefix is on an earlier line only, and the match is not in a comment
C21_Witness ==
    /\ textCall.fn = "IsFindingInComment"
    /\ textRet.done
    /\ textCall.langID = "c"
    /\ textCall.doc = <<"//", "\n", "a">>
    /\ textRet.val = FALSE

\* the search position before the k-th visited match of a scan
PositionBefore(k) ==
    IF k = 1 THEN 0 ELSE textRet.visited[k - 1].index + textRet.visited[k - 1].length

\* the pattern of the scan occurs at offset i of its text
OccursAt(i) ==
    LET regex == MakeRegex("regex", textCall.pattern, <<>>)
    IN MatchAtoms(regex.atoms, regex, textCall.text, i) # -1

\* C22: the matches a scan visits start at or after the end of the previous
\* one, their start offsets strictly increase, and no occurrence that starts
\* at or after the end of the previous match is passed over.
C22_LeftToRightNonOverlapping ==
    textCall.fn = "scan" =>
        /\ \A k \in 1..Len(textRet.visited) :
              /\ textRet.visited[k].index >= PositionBefore(k)
              /\ k > 1 => textRet.visited[k].index > textRet.visited[k - 1].index
              /\ \A i \in PositionBefore(k)..(textRet.visited[k].index - 1) : ~OccursAt(i)
        /\ textRet.done =>
              \A i \in PositionBefore(Len(textRet.visited) + 1)..Len(textCall.text) :
                 ~OccursAt(i)

\* C27: every iteration of the match loop moves the search position forward,
\* so a scan visits no more matches than the document has tokens.
C27_ScanAdvances ==
    textCall.fn = "scan" =>
        /\ \A k \in 1..Len(textRet.visited) : PositionBefore(k + 1) > PositionBefore(k)
        /\ Len(textRet.visited) <= Len(textCall.text)

\* C8: matchIsInScope is true for every match when the validated scopes
\* contain "any"; otherwise it is true exactly when (code is a scope and the
\* match is not in a comment) or (comment is a scope and the match is in one).
C8_AnyScopeMatchesEverywhere ==
    (textCall.fn = "MatchIsInScope" /\ textRet.done) =>
        LET scopes == ValidatedScopes(textCall.rawScopes)
            has(x) == \E i \in 1..Len(scopes) : scopes[i] = x
            inComment == IsFindingInComment(textCall.langID, textCall.doc,
                                            NewlineIndexOf(textCall.doc))
        IN textRet.val = (IF has("any") THEN TRUE
                          ELSE \/ (has("code") /\ ~inComment)
                               \/ (has("comment") /\ inComment))

\* the pattern text occurs literally at offset i of text
LiteralAt(text, pattern, i) ==
    /\ i + Len(pattern) <= Len(text)
    /\ Substr(text, i, Len(pattern)) = pattern

\* the offsets where a pattern of the given kind is meant to match
MeantMatches(regexType, pattern, text) ==
    { i \in 0..Len(text) :
        /\ LiteralAt(text, pattern, i)
        /\ regexType = "string" =>
              /\ IsWordBoundary(text, i)
              /\ IsWordBoundary(text, i + Len(pattern)) }

\* C9: a pattern of kind string matches its literal text exactly where the
\* text is bounded by word boundaries, a pattern of kind substring matches
\* its literal text anywhere; metacharacters of the pattern match literally.
C9_PatternKinds ==
    (/\ textCall.fn = "MakeRegex"
     /\ textRet.done
     /\ textCall.regexType \in {"string", "substring"}) =>
        LET want == MeantMatches(textCall.regexType, textCall.pattern, textCall.text)
        IN IF want = {} THEN ~textRet.val.found
           ELSE /\ textRet.val.found
                /\ textRet.val.index = CHOOSE i \in want : \A j \in want : i <= j
                /\ textRet.val.length = Len(textCall.pattern)

\* a string pattern with a metacharacter whose literal text occurs in the
\* document, but only inside a longer word: no match
C9_Witness ==
    /\ textCall.fn = "MakeRegex"
    /\ textRet.done
    /\ textCall.regexType = "string"
    /\ textCall.pattern = <<"a", ".">>
    /\ textCall.text = <<"b", "a", ".">>
    /\ ~textRet.val.found

\* the number of tokens of m after its last line break
RECURSIVE CharsAfterLastNewline(_)
CharsAfterLastNewline(m) ==
    IF m = <<>> \/ m[Len(m)] \in {"\n", "\r"} THEN 0
    ELSE 1 + CharsAfterLastNewline(SubSeq(m, 1, Len(m) - 1))

\* C10: a match with k >= 1 newlines ends on line start + k at the column
\* equal to the number of matched characters after its last newline; a match
\* with no newline ends on its start line at start column + length.
C10_MultiLineRange ==
    (textCall.fn = "MatchRange" /\ textRet.done) =>
        LET m == Substr(textCall.doc, textCall.index, textCall.length)
            k == CountLineBreaks(m)
            r == textRet.val
        IN IF k >= 1
           THEN /\ r.end.line = r.start.line + k
                /\ r.end.character = CharsAfterLastNewline(m)
           ELSE /\ r.end.line = r.start.line
                /\ r.end.character = r.start.character + textCall.length


\* the fix-its of a call that compile and match the text, last one first
RECURSIVE UsableFixNames(_, _)
UsableFixNames(fix_its, text) ==
    IF fix_its = <<>> THEN <<>>
    ELSE LET f == fix_its[Len(fix_its)]
             rest == UsableFixNames(SubSeq(fix_its, 1, Len(fix_its) - 1), text)
         IN IF RegExpCompiles(f.pattern) /\ XRegExpExec(text, XRegExp(f.pattern, <<>>), 0).found
            THEN <<f.name>> \o rest
            ELSE rest

\* C11: makeFixes never raises: a fix-it whose pattern cannot be compiled or
\* does not match the matched text is left out of the edit list, and the
\* rule's other fix-its are all produced.
C11_FixItNeverRaises ==
    (textCall.fn = "makeFixes" /\ textRet.done) =>
        /\ ~textRet.val.threw
        /\ [k \in 1..Len(textRet.val.fixes) |-> textRet.val.fixes[k].fixName]
             = UsableFixNames(textCall.fix_its, textCall.replacementSource)

\* C23: for a rule with two or more fix-its makeFixes emits the edits in
\* reverse declaration order, and once they are recorded and read back for
\* the finding's diagnostic the first-declared fix-it is listed first.
C23_FirstDeclaredFixFirst ==
    (/\ textCall.fn = "makeFixes"
     /\ textRet.done
     /\ Len(textCall.fix_its) >= 2
     /\ ~textRet.val.threw) =>
        /\ \A k \in 1..Len(textRet.val.fixes) :
              textRet.val.fixes[k].fixName
                = textCall.fix_its[Len(textCall.fix_its) + 1 - k].name
        /\ Len(textRet.scoped) = Len(textCall.fix_its)
        /\ textRet.scoped[1].label = textCall.fix_its[1].name


(***************************************************************************)
(* Suppression and review directives.                                      *)
(*                                                                         *)
(* A document is a sequence of lines, the finding's line last.  A line has *)
(* a kind and at most one directive; a directive is what suppressionRegEx  *)
(* or reviewRegEx captures: the word, the id list (group 1, a token        *)
(* sequence with "," between ids) and the date (group 2, a day number;     *)
(* Date.UTC of day d is the instant 2 * d, so that `now` can fall on       *)
(* either side of midnight).                                               *)
(***************************************************************************)
MaxAbove == 2
MaxNow == 3

NoDate == -1
NoDirective == [word |-> "none", ids |-> <<>>, date |-> NoDate]

RuleIdD1 == <<"D", "1">>
AllIds == <<"a", "l", "l">>
IdListTexts ==
    { RuleIdD1, <<"D", "2">>, <<"D", "1", "2">>, <<"D", "2", ",", "D", "1">>, AllIds }
DirectiveDays == {1}
NowValues == 1..MaxNow

\* a date follows the id lists that match the rule
Directives ==
    [word : {"ignore", "reviewed"}, ids : IdListTexts, date : {NoDate}]
      \cup [word : {"ignore", "reviewed"}, ids : {RuleIdD1, AllIds}, date : DirectiveDays]

\* the finding's own line: code, with or without a trailing directive comment
FindingLines == [kind : {"code"}, dir : Directives \cup {NoDirective}]

\* the lines above it: whole-line comments and block-comment lines (a block
\* comment that opens at the start of its line, or after code), or code
AboveDirectives ==
    { NoDirective } \cup [word : {"ignore", "reviewed"}, ids : {RuleIdD1}, date : {NoDate}]
      \cup [word : {"ignore"}, ids : {RuleIdD1}, date : DirectiveDays]

AboveLines ==
    [kind : {"lineComment", "blockComment"}, dir : AboveDirectives]
      \cup [kind : {"code", "blockCommentAfterCode"},
            dir : {NoDirective, [word |-> "ignore", ids |-> RuleIdD1, date |-> NoDate]}]

DateUTC(day) == 2 * day

\* hay.indexOf(needle) for token sequences
IndexOfSeq(hay, needle) ==
    LET at == { i \in 0..(Len(hay) - Len(needle)) : Substr(hay, i, Len(needle)) = needle }
    IN IF at = {} THEN -1 ELSE CHOOSE i \in at : \A j \in at : i <= j

\* match[0] of the directive expression on a line
MatchText(dir) ==
    <<(IF dir.word = "ignore" THEN "DevSkim: ignore " ELSE "DevSkim: reviewed ")>>
      \o dir.ids
      \o (IF dir.date = NoDate THEN <<>>
          ELSE <<(IF dir.word = "ignore" THEN " until " ELSE " on "), "YYYY-MM-DD">>)

\* XRegExp.exec(line, regex) with regex chosen by isReviewRule
DirectiveMatches(line, isReviewRule) ==
    line.dir.word = (IF isReviewRule THEN "reviewed" ELSE "ignore")

NoSuppression == [showSuppressionFinding |-> FALSE, noRange |-> "undefined",
                  suppressionIndex |-> -1]

\* suppressionCheck with the date compared for review rules too
suppressionCheckDatedReview(line, ruleID, isReviewRule, evenExpired, now) ==
    IF ~DirectiveMatches(line, isReviewRule) THEN NoSuppression
    ELSE
      LET match0 == MatchText(line.dir)
          suppressionIndex == IndexOfSeq(match0, ruleID)
      IN IF suppressionIndex > -1
         THEN [showSuppressionFinding |->
                  IF line.dir.date # NoDate
                  THEN DateUTC(line.dir.date) > now \/ evenExpired
                  ELSE TRUE,
               noRange |-> "false", suppressionIndex |-> suppressionIndex]
         ELSE IF IndexOfSeq(match0, AllIds) > -1
         THEN [showSuppressionFinding |-> TRUE, noRange |-> "true",
               suppressionIndex |-> -1]
         ELSE NoSuppression

\* the local function suppressionCheck of isFindingCommented
suppressionCheck(line, ruleID, isReviewRule, evenExpired, now) ==
    IF ~DirectiveMatches(line, isReviewRule) THEN NoSuppression
    ELSE
      LET match0 == MatchText(line.dir)
          suppressionIndex == IndexOfSeq(match0, ruleID)
      IN IF suppressionIndex > -1
         THEN [showSuppressionFinding |->
                  IF ~isReviewRule /\ line.dir.date # NoDate
                  THEN DateUTC(line.dir.date) > now \/ evenExpired
                  ELSE TRUE,
               noRange |-> "false", suppressionIndex |-> suppressionIndex]
         ELSE IF IndexOfSeq(match0, AllIds) > -1
         THEN [showSuppressionFinding |-> TRUE, noRange |-> "true",
               suppressionIndex |-> -1]
         ELSE NoSuppression

IsLineCommented(line) == line.kind = "lineComment"
IsLineBlockCommented(line) == line.kind \in {"blockComment", "blockCommentAfterCode"}
BlockCommentStartsLine(line) == line.kind = "blockComment"

\* the while loop of isFindingCommented, from line lineNumber upwards
RECURSIVE WalkBack(_, _, _, _, _, _, _)
WalkBack(lines, lineNumber, returnFinding, ruleID, isReviewRule, evenExpired, now) ==
    IF lineNumber < 1 THEN returnFinding
    ELSE
      LET subDoc == lines[lineNumber]
          checked == suppressionCheck(subDoc, ruleID, isReviewRule, evenExpired, now)
      IN IF IsLineCommented(subDoc)
         THEN IF checked.showSuppressionFinding THEN checked
              ELSE WalkBack(lines, lineNumber - 1, checked, ruleID, isReviewRule,
                            evenExpired, now)
         ELSE IF IsLineBlockCommented(subDoc)
         THEN IF BlockCommentStartsLine(subDoc)
              THEN IF checked.showSuppressionFinding THEN checked
                   ELSE WalkBack(lines, lineNumber - 1, checked, ruleID, isReviewRule,
                                 evenExpired, now)
              ELSE WalkBack(lines, lineNumber - 1, returnFinding, ruleID, isReviewRule,
                            evenExpired, now)
         ELSE returnFinding

\* DevSkimSuppression.isFindingCommented (utility_classes/suppressions.ts)
isFindingCommented(lines, ruleID, isReviewRule, evenExpired, now) ==
    LET returnFinding ==
          suppressionCheck(lines[Len(lines)], ruleID, isReviewRule, evenExpired, now)
    IN IF returnFinding.showSuppressionFinding THEN returnFinding
       ELSE WalkBack(lines, Len(lines) - 1, returnFinding, ruleID, isReviewRule,
                     evenExpired, now)

\* DevSkimSuppression.isFindingCommented of the earlier revision
\* (src/suppressions.ts): the finding's own line only, a boolean
isFindingCommentedOld(line, ruleID, isReviewRule, now) ==
    IF ~DirectiveMatches(line, isReviewRule) THEN FALSE
    ELSE
      LET match0 == MatchText(line.dir)
      IN IF IndexOfSeq(match0, ruleID) > -1 \/ IndexOfSeq(match0, AllIds) > -1
         THEN IF ~isReviewRule /\ line.dir.date # NoDate
              THEN DateUTC(line.dir.date) > now
              ELSE TRUE
         ELSE FALSE

SupDocs ==
    UNION { { above \o <<f>> : above \in [1..k -> AboveLines], f \in FindingLines } :
            k \in 0..MaxAbove }

SupCalls ==
    [fn : {"isFindingCommented"}, lines : SupDocs, ruleID : {RuleIdD1},
     isReviewRule : BOOLEAN, now : NowValues]

ApplyIsFindingCommented ==
    /\ supCall.fn = "isFindingCommented"
    /\ ~supRet.done
    /\ supRet' = [done |-> TRUE,
                  val |-> isFindingCommented(supCall.lines, supCall.ruleID,
                                             supCall.isReviewRule, FALSE, supCall.now),
                  old |-> isFindingCommentedOld(supCall.lines[Len(supCall.lines)],
                                                supCall.ruleID, supCall.isReviewRule,
                                                supCall.now)]
    /\ UNCHANGED <<supCall, OtherThanSup>>

(***************************************************************************)
(* Suppression actions.  createActions is called by runAnalysis for a      *)
(* finding that is not suppressed; the document here is the finding's line. *)
(* Local time is UTC plus tz half-days; the calendar day of instant t in    *)
(* that zone is what getFullYear / getMonth / getDate give.                 *)
(***************************************************************************)
TimeZones == {-1, 0, 1}
Durations == {0, 1, 2}

LocalDay(t, tz) == (t + tz) \div 2

\* `new Date()` and `date.setDate(date.getDate() + daysOffset)`
ActionDate(isReviewRule, daysOffset, now, tz) ==
    LET days == IF ~isReviewRule /\ daysOffset > 0 THEN daysOffset ELSE 0
    IN [time |-> now + 2 * days, day |-> LocalDay(now, tz) + days]

NoActionDate == [time |-> -1, day |-> NoDate]

\* DevSkimSuppression.makeActionString: the directive it writes
makeActionString(ruleIDs, isReviewRule, date, now) ==
    [word |-> IF isReviewRule THEN "reviewed" ELSE "ignore",
     ids |-> ruleIDs,
     date |-> IF date # NoActionDate /\ (date.time > now \/ isReviewRule)
              THEN date.day ELSE NoDate]

\* DevSkimSuppression.addAction on the finding's line
addAction(line, ruleID, isReviewRule, daysOffset, now, tz) ==
    LET date == ActionDate(isReviewRule, daysOffset, now, tz)
        dateArg == IF isReviewRule \/ daysOffset > 0 THEN date ELSE NoActionDate
        existingSuppression == isFindingCommented(<<line>>, ruleID, isReviewRule, TRUE, now)
    IN IF existingSuppression.showSuppressionFinding
          /\ existingSuppression.noRange = "true"
       THEN [threw |-> TRUE, replaces |-> "nothing", dir |-> NoDirective]
       ELSE IF DirectiveMatches(line, isReviewRule)
       THEN [threw |-> FALSE, replaces |-> "directive",
             dir |-> makeActionString(IF IndexOfSeq(line.dir.ids, ruleID) >= 0
                                      THEN line.dir.ids
                                      ELSE ruleID \o <<",">> \o line.dir.ids,
                                      isReviewRule, dateArg, now)]
       ELSE [threw |-> FALSE, replaces |-> "endOfLine",
             dir |-> makeActionString(ruleID, isReviewRule, dateArg, now)]

\* DevSkimSuppression.createActions
createActions(line, ruleID, isReviewRule, suppressionDurationInDays, now, tz) ==
    (IF ~isReviewRule /\ suppressionDurationInDays > 0
     THEN <<addAction(line, ruleID, isReviewRule, suppressionDurationInDays, now, tz)>>
     ELSE <<>>)
      \o <<addAction(line, ruleID, isReviewRule, -1, now, tz)>>

\* the finding's line once the edit is applied: the directive of the
\* finding's class that follows the finding is the one the edit wrote
ApplyEdit(line, action) == [line EXCEPT !.dir = action.dir]

ActionLines ==
    [kind : {"code"},
     dir : Directives \cup {NoDirective,
                            [word |-> "ignore", ids |-> <<"D", "1", "2">>, date |-> 1]}]

CreateCalls ==
    { c \in [fn : {"createActions"}, line : ActionLines, ruleID : {RuleIdD1},
             isReviewRule : BOOLEAN, suppressionDurationInDays : Durations,
             now : NowValues, tz : TimeZones] :
        ~isFindingCommented(<<c.line>>, c.ruleID, c.isReviewRule, FALSE,
                            c.now).showSuppressionFinding }

\* createActions, then each edit applied and the finding checked again at
\* the same instant
ApplyCreateActions ==
    /\ supCall.fn = "createActions"
    /\ ~supRet.done
    /\ \E actions \in {createActions(supCall.line, supCall.ruleID, supCall.isReviewRule,
                                      supCall.suppressionDurationInDays, supCall.now,
                                      supCall.tz)} :
          supRet' = [done |-> TRUE,
                     val |-> actions,
                     rechecked |->
                        [k \in 1..Len(actions) |->
                           isFindingCommented(<<ApplyEdit(supCall.line, actions[k])>>,
                                              supCall.ruleID, supCall.isReviewRule, FALSE,
                                              supCall.now).showSuppressionFinding]]
    /\ UNCHANGED <<supCall, OtherThanSup>>

InitSup ==
    /\ supCall \in SupCalls \cup CreateCalls
    /\ supRet = NotReturned
    /\ AllIdleButSup

NextSup ==
    \/ ApplyIsFindingCommented
    \/ ApplyCreateActions

SpecSup == InitSup /\ [][NextSup]_vars

\* the ids of a comma-joined id list
RECURSIVE SplitIds(_)
SplitIds(ids) ==
    IF IndexOf(ids, ",") = -1 THEN {ids}
    ELSE {Substr(ids, 0, IndexOf(ids, ","))}
            \cup SplitIds(SubstrFrom(ids, IndexOf(ids, ",") + 1))

\* line p holds the only directive of the document, and the finding can see
\* it: it is on the finding's line, or every line from p down to the line
\* above the finding is a comment line
OnlyDirectiveAt(lines, p) ==
    /\ p \in 1..Len(lines)
    /\ lines[p].dir # NoDirective
    /\ \A j \in 1..Len(lines) : j # p => lines[j].dir = NoDirective
    /\ \A j \in p..(Len(lines) - 1) : lines[j].kind \in {"lineComment", "blockComment"}

\* the number of elements of a comma-joined id list that are equal to id
CountId(ids, id) ==
    Cardinality({ i \in 0..(Len(ids) - Len(id)) :
                    /\ Substr(ids, i, Len(id)) = id
                    /\ (i = 0 \/ ids[i] = ",")
                    /\ (i + Len(id) = Len(ids) \/ ids[i + Len(id) + 1] = ",") })

\* C24: when a directive of the finding's class is already on the finding's
\* line, every edit of createActions replaces that directive (none is added
\* at the end of the line), and its id list has the finding's rule id exactly
\* once and every id that was listed before.
C24_ExistingDirectiveMerged ==
    (/\ supCall.fn = "createActions"
     /\ supRet.done
     /\ DirectiveMatches(supCall.line, supCall.isReviewRule)) =>
        \A k \in 1..Len(supRet.val) :
            /\ ~supRet.val[k].threw
            /\ supRet.val[k].replaces = "directive"
            /\ CountId(supRet.val[k].dir.ids, supCall.ruleID) = 1
            /\ SplitIds(supCall.line.dir.ids) \subseteq SplitIds(supRet.val[k].dir.ids)

\* C28: for a finding that is not suppressed, each edit of createActions,
\* applied to the document, makes isFindingCommented report the finding
\* suppressed at the same instant, in every time zone.
C28_ActionRoundTrip ==
    (supCall.fn = "createActions" /\ supRet.done) =>
        \A k \in 1..Len(supRet.val) :
            ~supRet.val[k].threw /\ supRet.rechecked[k]

\* C19: a finding is suppressed only by a directive whose id list has an
\* element equal to the finding's rule id, or the element `all`; an id that
\* merely contains the rule id does not suppress.
C19_MatchByMembership ==
    (supCall.fn = "isFindingCommented" /\ supRet.done) =>
        (supRet.val.showSuppressionFinding =>
            \E p \in 1..Len(supCall.lines) :
                /\ supCall.lines[p].dir # NoDirective
                /\ SplitIds(supCall.lines[p].dir.ids) \cap {supCall.ruleID, AllIds} # {})

\* suppressionCheck on line p of the call's document
CheckedLine(p) ==
    suppressionCheck(supCall.lines[p], supCall.ruleID, supCall.isReviewRule, FALSE,
                     supCall.now)

\* line p holds a directive for the finding: of the finding's class, with the
\* rule id or `all` in its id list, expired or not
DirectiveFor(p) ==
    /\ supCall.lines[p].dir # NoDirective
    /\ DirectiveMatches(supCall.lines[p], supCall.isReviewRule)
    /\ SplitIds(supCall.lines[p].dir.ids) \cap {supCall.ruleID, AllIds} # {}

\* line p is above the finding, holds a directive for it in a comment the
\* walk reads, and every line from p down to the line above the finding is a
\* comment line, none of them read with a directive for the finding
SuppressedFromAbove(p) ==
    /\ p \in 1..(Len(supCall.lines) - 1)
    /\ DirectiveFor(p)
    /\ supCall.lines[p].kind \in {"lineComment", "blockComment"}
    /\ \A j \in (p + 1)..(Len(supCall.lines) - 1) :
          \/ supCall.lines[j].kind = "blockCommentAfterCode"
          \/ /\ supCall.lines[j].kind \in {"lineComment", "blockComment"}
             /\ ~DirectiveFor(j)

\* C20: a finding with no suppressing directive on its own line is suppressed
\* from above only if no directive for it is on its own line, every line from
\* the directive down to the line above the finding is a single-line comment
\* or a block-comment line, and the directive is the first one for the
\* finding met walking up; the walk ends at the top of the document.
C20_WalkBackThroughComments ==
    (supCall.fn = "isFindingCommented" /\ supRet.done) =>
        LET own == CheckedLine(Len(supCall.lines))
        IN /\ own.showSuppressionFinding => supRet.val = own
           /\ (~own.showSuppressionFinding /\ supRet.val.showSuppressionFinding) =>
                 /\ ~DirectiveFor(Len(supCall.lines))
                 /\ \E p \in 1..(Len(supCall.lines) - 1) :
                       SuppressedFromAbove(p) /\ supRet.val = CheckedLine(p)
           /\ (\A p \in 1..Len(supCall.lines) : ~CheckedLine(p).showSuppressionFinding)
                 => ~supRet.val.showSuppressionFinding

\* C2: for a non-review finding and a matching ignore directive (its id list
\* names the rule id or is `all`), the finding is suppressed if and only if
\* the directive has no until date or now is before it.
C2_IgnoreUntilDate ==
    (supCall.fn = "isFindingCommented" /\ supRet.done /\ ~supCall.isReviewRule) =>
        \A p \in 1..Len(supCall.lines) :
            LET dir == supCall.lines[p].dir
            IN (/\ OnlyDirectiveAt(supCall.lines, p)
                /\ dir.word = "ignore"
                /\ (supCall.ruleID \in SplitIds(dir.ids) \/ dir.ids = AllIds))
               => (supRet.val.showSuppressionFinding
                     = (dir.date = NoDate \/ supCall.now < DateUTC(dir.date)))

\* C3: for a ManualReview finding, a reviewed directive that names the
\* finding's rule id suppresses it whatever its date is.
C3_ReviewedIgnoresDate ==
    (supCall.fn = "isFindingCommented" /\ supRet.done /\ supCall.isReviewRule) =>
        \A p \in 1..Len(supCall.lines) :
            LET dir == supCall.lines[p].dir
            IN (/\ OnlyDirectiveAt(supCall.lines, p)
                /\ dir.word = "reviewed"
                /\ supCall.ruleID \in SplitIds(dir.ids))
               => /\ supRet.val.showSuppressionFinding
                  /\ p = Len(supCall.lines) => supRet.old

\* a review finding suppressed by a reviewed directive dated in the past
C3_Witness ==
    /\ supCall.fn = "isFindingCommented"
    /\ supRet.done
    /\ supCall.isReviewRule
    /\ LET f == supCall.lines[Len(supCall.lines)]
       IN /\ OnlyDirectiveAt(supCall.lines, Len(supCall.lines))
          /\ f.dir.word = "reviewed"
          /\ f.dir.ids = RuleIdD1
          /\ f.dir.date # NoDate
          /\ DateUTC(f.dir.date) < supCall.now
    /\ supRet.val.showSuppressionFinding


(***************************************************************************)
(* processOverrides.                                                       *)
(*                                                                         *)
(* A finding (DevSkimProblem) keeps its rule id, the start of its range,   *)
(* the start of suppressedFindingRange when it is the highlight of a       *)
(* directive, and its overrides; uid is the identity of the object.        *)
(***************************************************************************)
MaxBatch == 3

IdA == <<"A">>
IdB == <<"B">>
IdB2 == <<"B", "2">>
RuleIds == <<IdA, IdB, IdB2>>
OverrideLists ==
    { <<>>, <<IdA>>, <<IdB>>, <<IdB2>>, <<IdA, IdB>>, <<IdA, IdB2>>, <<IdB, IdB2>> }

Positions == [line : {0}, character : {0, 2}]
NoRange == [line |-> -1, character |-> -1]

\* the start of the directive highlight of a suppressed finding at p
HighlightStart(p) == [line |-> p.line, character |-> p.character + 2]

\* ruleId.match(regexString), regexString the overrides joined with "|"
RuleIdMatches(ruleId, overrides) ==
    \E k \in 1..Len(overrides) : IndexOfSeq(ruleId, overrides[k]) > -1

\* problems.splice(x, 1), x counted from 0
Splice(problems, x) ==
    [k \in 1..(Len(problems) - 1) |-> IF k <= x THEN problems[k] ELSE problems[k + 1]]

\* the loop on x of processOverrides
RECURSIVE OverridesInner(_, _, _, _)
OverridesInner(problems, x, problem, overrideRemoved) ==
    IF x >= Len(problems) THEN [problems |-> problems, overrideRemoved |-> overrideRemoved]
    ELSE
      LET range == IF problem.suppressedFindingRange # NoRange
                   THEN problem.suppressedFindingRange ELSE problem.range
      IN IF /\ RuleIdMatches(problems[x + 1].ruleId, problem.overrides)
            /\ problems[x + 1].range.line = range.line
            /\ problems[x + 1].range.character = range.character
         THEN OverridesInner(Splice(problems, x), x + 1, problem, TRUE)
         ELSE OverridesInner(problems, x + 1, problem, overrideRemoved)

\* problem.overrides = [] on the object, wherever it is in the array
ClearOverrides(problems, uid) ==
    [k \in 1..Len(problems) |->
        IF problems[k].uid = uid THEN [problems[k] EXCEPT !.overrides = <<>>]
        ELSE problems[k]]

\* for (var problem of problems): the iterator is at index i of the live array
RECURSIVE OverridesOuter(_, _, _)
OverridesOuter(problems, i, overrideRemoved) ==
    IF i >= Len(problems) THEN [problems |-> problems, overrideRemoved |-> overrideRemoved]
    ELSE
      LET problem == problems[i + 1]
      IN IF Len(problem.overrides) > 0
         THEN LET inner == OverridesInner(problems, 0, problem, overrideRemoved)
              IN OverridesOuter(ClearOverrides(inner.problems, problem.uid), i + 1,
                                inner.overrideRemoved)
         ELSE OverridesOuter(problems, i + 1, overrideRemoved)

\* processOverrides returning after its first pass, whatever it removed
processOverridesOnce(problems) == OverridesOuter(problems, 0, FALSE).problems

\* DevSkimWorker.processOverrides
RECURSIVE processOverrides(_)
processOverrides(problems) ==
    LET pass == OverridesOuter(problems, 0, FALSE)
    IN IF pass.overrideRemoved THEN processOverrides(pass.problems) ELSE pass.problems

\* the number of calls of processOverrides, the recursive ones included
RECURSIVE Passes(_)
Passes(problems) ==
    LET pass == OverridesOuter(problems, 0, FALSE)
    IN IF pass.overrideRemoved THEN 1 + Passes(pass.problems) ELSE 1

\* what runAnalysis pushes: rule by rule, a rule's matches in document order;
\* a cell is <<rule index, position>>
Cells == (1..Len(RuleIds)) \X Positions

CellBefore(c, e) ==
    \/ c[1] < e[1]
    \/ c[1] = e[1] /\ c[2].character < e[2].character

RECURSIVE CellsInOrder(_)
CellsInOrder(S) ==
    IF S = {} THEN <<>>
    ELSE LET first == CHOOSE c \in S : \A e \in S \ {c} : CellBefore(c, e)
         IN <<first>> \o CellsInOrder(S \ {first})

\* makeProblem for the matches in cells, with the overrides of each rule
MakeProblems(cells, kind, overridesOf) ==
    [k \in 1..Len(cells) |->
        [uid |-> k,
         ruleId |-> RuleIds[cells[k][1]],
         overrides |-> overridesOf[cells[k][1]],
         range |-> IF kind[cells[k]] = "highlight" THEN HighlightStart(cells[k][2])
                   ELSE cells[k][2],
         suppressedFindingRange |->
             IF kind[cells[k]] = "highlight" THEN cells[k][2] ELSE NoRange]]

CellSets == { T \in SUBSET Cells : Cardinality(T) <= MaxBatch }

ApplyProcessOverrides ==
    /\ ovCall.fn = "processOverrides"
    /\ ~ovRet.done
    /\ ovRet' = [done |-> TRUE, val |-> processOverrides(ovCall.problems)]
    /\ UNCHANGED <<ovCall, OtherThanOv>>

InitOv ==
    /\ \E S \in CellSets :
          \E kind \in [S -> {"finding", "highlight"}] :
             \E overridesOf \in [1..Len(RuleIds) -> OverrideLists] :
                ovCall = [fn |-> "processOverrides",
                          problems |-> MakeProblems(CellsInOrder(S), kind, overridesOf)]
    /\ ovRet = NotReturned
    /\ AllIdleButOv

NextOv == ApplyProcessOverrides

SpecOv == InitOv /\ [][NextOv]_vars

\* the start position an overriding finding is compared at
OverrideStart(f) ==
    IF f.suppressedFindingRange # NoRange THEN f.suppressedFindingRange ELSE f.range

Remaining(problems) == { problems[k].uid : k \in 1..Len(problems) }

\* C1: after processOverrides, for every finding F of the original batch that
\* carries overrides (and is itself still reported), no other finding remains
\* whose rule id matches one of F's override ids at F's start position.
C1_OverriddenFindingsRemoved ==
    (ovCall.fn = "processOverrides" /\ ovRet.done) =>
        \A f \in 1..Len(ovCall.problems) :
            LET F == ovCall.problems[f]
            IN (Len(F.overrides) > 0 /\ F.uid \in Remaining(ovRet.val)) =>
                 \A g \in 1..Len(ovRet.val) :
                    LET G == ovRet.val[g]
                    IN G.uid # F.uid =>
                         ~(/\ RuleIdMatches(G.ruleId, F.overrides)
                           /\ G.range = OverrideStart(F))


\* C17: a finding is removed only if a different finding of the batch has an
\* override that matches its rule id and starts where it starts; a finding is
\* never removed on account of its own overrides.
C17_OnlyOthersRemoved ==
    (ovCall.fn = "processOverrides" /\ ovRet.done) =>
        \A g \in 1..Len(ovCall.problems) :
            LET G == ovCall.problems[g]
            IN G.uid \notin Remaining(ovRet.val) =>
                 \E f \in 1..Len(ovCall.problems) :
                    LET F == ovCall.problems[f]
                    IN /\ F.uid # G.uid
                       /\ RuleIdMatches(G.ruleId, F.overrides)
                       /\ G.range = OverrideStart(F)

\* the findings the first pass left in the array without visiting them
SkippedByFirstPass(problems) ==
    LET pass == OverridesOuter(problems, 0, FALSE).problems
    IN { pass[k].uid : k \in { j \in 1..Len(pass) : Len(pass[j].overrides) > 0 } }

\* C18: processOverrides returns after at most one call per finding plus one,
\* and every finding it returns has an empty override list, the findings an
\* earlier pass skipped included.
C18_OverridesCleared ==
    (ovCall.fn = "processOverrides" /\ ovRet.done) =>
        /\ Passes(ovCall.problems) <= Len(ovCall.problems) + 1
        /\ Len(ovRet.val) <= Len(ovCall.problems)
        /\ \A k \in 1..Len(ovRet.val) : ovRet.val[k].overrides = <<>>

\* a finding the first pass skipped is returned
C18_Witness ==
    /\ ovCall.fn = "processOverrides"
    /\ ovRet.done
    /\ SkippedByFirstPass(ovCall.problems) \cap Remaining(ovRet.val) # {}

(***************************************************************************)
(* validateRules on a batch of candidates, and again on what it returned.  *)
(***************************************************************************)
MaxCandidates == 2

BasePattern ==
    [pattern |-> "regex-text", type |-> "regex", scopes |-> Arr(<<"code">>),
     scope |-> Undefined, modifiers |-> Arr(<<"i">>)]

ModernFixit ==
    [name |-> "fix", type |-> "regex-replace", replacement |-> "new", replace |-> Undefined,
     pattern |-> BasePattern, search |-> Undefined]

LegacyFixit ==
    [name |-> "fix", type |-> "regex-substitute", replacement |-> Undefined,
     replace |-> "new", pattern |-> NoPattern, search |-> "regex-text"]

\* a rule in the current schema with every key present
BaseRule ==
    [name |-> "name", id |-> "DS000001", description |-> "description",
     recommendation |-> "recommendation", replacement |-> Undefined,
     overrides |-> Arr(<<"DS000002">>), applies_to |-> Arr(<<"c">>), tags |-> Arr(<<"tag">>),
     severity |-> "critical", rule_info |-> <<"f">>,
     patterns |-> Arr(<<BasePattern>>), fix_its |-> Arr(<<ModernFixit>>), fix_it |-> NoArray]

\* the same rule with only the keys a rule must have
MinimalRule ==
    [BaseRule EXCEPT !.overrides = NoArray, !.applies_to = NoArray, !.tags = NoArray,
                     !.fix_its = NoArray,
                     !.patterns = Arr(<<[BasePattern EXCEPT !.scopes = NoArray,
                                                            !.modifiers = NoArray]>>)]

\* the same rule in the legacy schema
LegacyRule ==
    [BaseRule EXCEPT !.recommendation = Undefined, !.replacement = "recommendation",
                     !.severity = "manual_review", !.rule_info = <<"u", "/", "f">>,
                     !.fix_its = NoArray, !.fix_it = Arr(<<LegacyFixit>>),
                     !.patterns = Arr(<<[BasePattern EXCEPT !.scopes = NoArray,
                                                            !.scope = "comment",
                                                            !.type = "regex_word"]>>)]

PatternVariants ==
    { [BasePattern EXCEPT !.pattern = Undefined],
      [BasePattern EXCEPT !.type = "regex_word"],
      [BasePattern EXCEPT !.type = "bogus"],
      [BasePattern EXCEPT !.scopes = NoArray],
      [BasePattern EXCEPT !.scopes = Arr(<<"any">>)],
      [BasePattern EXCEPT !.scopes = Arr(<<"all">>)],
      [BasePattern EXCEPT !.scopes = Arr(<<NotAString>>)],
      [BasePattern EXCEPT !.scopes = NoArray, !.scope = "comment"],
      [BasePattern EXCEPT !.modifiers = NoArray],
      [BasePattern EXCEPT !.modifiers = Arr(<<"x">>)] }

\* the candidates: the three rules above and the base rule with one key
\* absent, legacy or malformed
Candidates ==
    {BaseRule, MinimalRule, LegacyRule}
      \cup { [BaseRule EXCEPT !.name = v] : v \in {Undefined} }
      \cup { [BaseRule EXCEPT !.id = v] : v \in {Undefined, "MyRule"} }
      \cup { [BaseRule EXCEPT !.description = v] : v \in {Undefined} }
      \cup { [BaseRule EXCEPT !.recommendation = v] : v \in {Undefined} }
      \cup { [BaseRule EXCEPT !.overrides = v] : v \in {NoArray, Arr(<<>>), Arr(<<"Other">>)} }
      \cup { [BaseRule EXCEPT !.applies_to = v] : v \in {NoArray} }
      \cup { [BaseRule EXCEPT !.tags = v] : v \in {NoArray} }
      \cup { [BaseRule EXCEPT !.severity = v] : v \in {Undefined, "manual_review", "bogus"} }
      \cup { [BaseRule EXCEPT !.rule_info = v] : v \in {<<>>, <<"u", "/", "f">>, <<"f", "/">>} }
      \cup { [BaseRule EXCEPT !.patterns = v] : v \in {NoArray, Arr(<<>>)} }
      \cup { [BaseRule EXCEPT !.patterns = Arr(<<p>>)] : p \in PatternVariants }
      \cup { [BaseRule EXCEPT !.fix_its = NoArray, !.fix_it = v] :
               v \in {NoArray, Arr(<<>>), Arr(<<LegacyFixit>>)} }

ValCalls ==
    [fn : {"validateRules"},
     readRules : UNION { [1..k -> Candidates] : k \in 1..MaxCandidates },
     outputValidation : BOOLEAN]

\* loadedRule.filepath: the k-th candidate was read from its own file
FilePathOf(k) == k

\* what validateRules writes once the loop is over: rulesValidationLog.json,
\* and under newrules one file per key of fixedRules (the files of the
\* candidates makeRule returned a rule for)
WrittenFiles(validated, outputValidation) ==
    [log |-> outputValidation /\ Len(validated.outputMessages) > 0,
     newrules |-> IF outputValidation /\ validated.writeoutNewRules
                  THEN { FilePathOf(validated.from[k]) : k \in 1..Len(validated.from) }
                  ELSE {}]

\* validateRules(readRules, outputValidation)
ValidateRules ==
    /\ valCall.fn = "validateRules"
    /\ ~valRet.done
    /\ \E validated \in {validateRules(valCall.readRules, valCall.outputValidation)} :
          valRet' = [done |-> TRUE, again |-> FALSE, first |-> validated,
                     written |-> WrittenFiles(validated, valCall.outputValidation)]
    /\ UNCHANGED <<valCall, OtherThanVal>>

\* validateRules on the rules the first call returned
ValidateReturnedRules ==
    /\ valCall.fn = "validateRules"
    /\ valRet.done
    /\ ~valRet.again
    /\ valRet' = [done |-> TRUE, again |-> TRUE, first |-> valRet.first,
                  written |-> valRet.written,
                  second |-> validateRules(valRet.first.rules, valCall.outputValidation)]
    /\ UNCHANGED <<valCall, OtherThanVal>>

InitVal ==
    /\ valCall \in ValCalls
    /\ valRet = NotReturned
    /\ AllIdleButVal

NextVal ==
    \/ ValidateRules
    \/ ValidateReturnedRules

SpecVal == InitVal /\ [][NextVal]_vars

\* C25: validateRules writes the validation log and corrected rule files only
\* when outputValidation is set, and a corrected file only for a source file
\* of which at least one rule was migrated.
C25_CorrectedFilesOnlyIfMigrated ==
    (valCall.fn = "validateRules" /\ valRet.done) =>
        /\ ~valCall.outputValidation =>
              ~valRet.written.log /\ valRet.written.newrules = {}
        /\ \A f \in valRet.written.newrules :
              \E k \in 1..Len(valCall.readRules) :
                 FilePathOf(k) = f /\ makeRule(valCall.readRules[k]).write

\* the candidates in the current schema that have every hard-required field
\* and leave out one or all of the optional ones
OptionalOmitted ==
    { MinimalRule,
      [BaseRule EXCEPT !.overrides = NoArray],
      [BaseRule EXCEPT !.applies_to = NoArray],
      [BaseRule EXCEPT !.tags = NoArray],
      [BaseRule EXCEPT !.patterns = Arr(<<[BasePattern EXCEPT !.scopes = NoArray]>>)] }

\* the input indexes of the rules validateRules returns
Accepted(readRules, outputValidation) ==
    LET from == validateRules(readRules, outputValidation).from
    IN { from[k] : k \in 1..Len(from) }

\* C26: a candidate in the current schema with every hard-required field and
\* optional fields left out is returned with outputValidation off exactly when
\* it is returned with outputValidation on.
C26_SameAcceptance ==
    (valCall.fn = "validateRules" /\ valRet.done) =>
        \A k \in 1..Len(valCall.readRules) :
            valCall.readRules[k] \in OptionalOmitted =>
                (k \in Accepted(valCall.readRules, FALSE)
                    <=> k \in Accepted(valCall.readRules, TRUE))

\* the candidate has the fields the contract calls hard-required
HasHardRequired(c) ==
    /\ isSetString(c.name)
    /\ isSetString(c.id)
    /\ isSetString(c.description)
    /\ isSetArray(c.patterns)

\* C5: validateRules returns, in input order, every candidate that has all
\* hard-required fields (name, id, description, non-empty pattern list); a
\* candidate that fails is left out and the others are not affected.
C5_RequiredFieldsAccepted ==
    (valCall.fn = "validateRules" /\ valRet.done) =>
        valRet.first.from =
            SelectSeq([k \in 1..Len(valCall.readRules) |-> k],
                      LAMBDA k : HasHardRequired(valCall.readRules[k]))

Severities == {"critical", "important", "moderate", "best-practice", "manual-review"}
LegacySeverities == {"manual_review", "best_practice", "low", "defense-in-depth",
                     "defense_in_depth"}

\* C14: with strict set or not, every rule validateRules returns has one of
\* the five severities and every pattern of it one of the four kinds, and a
\* candidate whose severity or pattern kind is neither one of these nor a
\* legacy spelling is not among the rules returned.
C14_SeverityAndKindKnown ==
    (valCall.fn = "validateRules" /\ valRet.done) =>
        /\ \A i \in 1..Len(valRet.first.rules) :
              LET rule == valRet.first.rules[i]
              IN /\ rule.severity \in Severities
                 /\ \A j \in 1..Len(rule.patterns.items) :
                       rule.patterns.items[j].type \in PatternKinds
        /\ \A i \in 1..Len(valRet.first.from) :
              LET c == valCall.readRules[valRet.first.from[i]]
              IN /\ c.severity \in Severities \cup LegacySeverities
                 /\ \A j \in 1..Len(c.patterns.items) :
                       c.patterns.items[j].type \in PatternKinds \cup {"regex_word"}

\* the pattern declares no scope that is a string
NoUsableScopes(p) ==
    /\ \A j \in 1..Len(p.scopes.items) : ~verifyTypeString(p.scopes.items[j])
    /\ ~isSetString(p.scope)

\* the candidate with {code} written out where a pattern declares no scope
WithCodeScopes(c) ==
    [c EXCEPT !.patterns.items =
        [j \in 1..Len(c.patterns.items) |->
            IF NoUsableScopes(c.patterns.items[j])
            THEN [c.patterns.items[j] EXCEPT !.scopes = Arr(<<"code">>), !.scope = Undefined]
            ELSE c.patterns.items[j]]]

\* C15: every pattern of every rule validateRules returns has a non-empty
\* scopes array of values among code, comment, html and any; a candidate
\* whose patterns declare no usable scope is accepted exactly as the same
\* candidate declaring scopes [code] is.
C15_ScopesDefaultToCode ==
    (valCall.fn = "validateRules" /\ valRet.done) =>
        /\ \A i \in 1..Len(valRet.first.rules) :
              \A j \in 1..Len(valRet.first.rules[i].patterns.items) :
                 LET scopes == valRet.first.rules[i].patterns.items[j].scopes
                 IN /\ isSetArray(scopes)
                    /\ \A n \in 1..Len(scopes.items) :
                          scopes.items[n] \in {"code", "comment", "html", "any"}
        /\ \A k \in 1..Len(valCall.readRules) :
              LET c == valCall.readRules[k]
              IN (c.patterns.isArray /\ WithCodeScopes(c) # c) =>
                   \A declared \in {validateRules(<<WithCodeScopes(c)>>,
                                                   valCall.outputValidation).rules} :
                      declared # <<>> =>
                         \E i \in 1..Len(valRet.first.from) :
                            /\ valRet.first.from[i] = k
                            /\ valRet.first.rules[i] = declared[1]

\* C6: validating the rules validateRules returned gives the same rules back
\* and records no outcome at all.
C6_ValidateIdempotent ==
    (valCall.fn = "validateRules" /\ valRet.done /\ valRet.again) =>
        /\ valRet.second.rules = valRet.first.rules
        /\ valRet.second.outputMessages = <<>>


(***************************************************************************)
(* The worker (devskimWorker.ts): loadRules, its two readFiles callbacks   *)
(* and analyzeText.  The worker validates with ./ruleValidator, the        *)
(* revision that checks name, id, description, recommendation and          *)
(* overrides and passes the other keys through.  A rule id and a           *)
(* one-character pattern are one token each.  The validation log and the   *)
(* corrected copies are written outside the rules directory and are not    *)
(* part of the state; fixes are a function of the rule, the match text and *)
(* the range and are left out of a finding.                                *)
(***************************************************************************)
MaxLoads == 2
MaxAnalyses == 2

\* DevSkimWorker.settings.devskim
Settings ==
    [ignoreRulesList |-> <<>>, enableBestPracticeRules |-> TRUE,
     enableManualReviewRules |-> TRUE, validateRulesFiles |-> TRUE]

\* the rules directory: two files; the first holds a rule without a name
Md5Java ==
    [name |-> "md5 (java)", id |-> "DS000001", description |-> "description",
     recommendation |-> "recommendation", replacement |-> Undefined,
     overrides |-> Arr(<<"DS000002">>), applies_to |-> Arr(<<"c">>),
     conditions |-> NoArray, severity |-> "critical", active |-> TRUE,
     patterns |-> <<[pattern |-> "a", type |-> "regex", modifiers |-> <<>>,
                     scope |-> "all"]>>]

Md5Generic ==
    [Md5Java EXCEPT !.name = "md5", !.id = "DS000002", !.overrides = NoArray,
                    !.applies_to = NoArray, !.severity = "important",
                    !.patterns = <<[pattern |-> "a", type |-> "string",
                                    modifiers |-> <<>>, scope |-> "code"]>>]

\* a rule declared inactive
Md5Retired ==
    [Md5Java EXCEPT !.name = "md5 (retired)", !.id = "DS000004", !.active = FALSE,
                    !.overrides = NoArray, !.applies_to = Arr(<<"python">>),
                    !.severity = "moderate"]

RuleFiles ==
    << <<Md5Java, [Md5Java EXCEPT !.name = Undefined, !.id = "DS000003"]>>,
       <<Md5Generic, Md5Retired>> >>

\* RuleValidator.makeRule of ./ruleValidator
makeRuleOld(loadedRule) ==
    IF \E v \in {loadedRule.name, loadedRule.id, loadedRule.description} :
          ~isSetString(v) \/ ~verifyTypeString(v)
    THEN Thrown(<<>>, FALSE)
    ELSE Ok([name |-> loadedRule.name, id |-> loadedRule.id,
             description |-> loadedRule.description,
             recommendation |->
                 IF isSetString(loadedRule.recommendation)
                      /\ verifyTypeString(loadedRule.recommendation)
                 THEN loadedRule.recommendation
                 ELSE IF isSetString(loadedRule.replacement)
                           /\ verifyTypeString(loadedRule.replacement)
                 THEN loadedRule.replacement
                 ELSE "",
             replacement |-> Undefined,
             overrides |-> ArrayOrUnset(SelectSeq(loadedRule.overrides.items,
                               LAMBDA o : isSetString(o) /\ verifyTypeString(o))),
             applies_to |-> loadedRule.applies_to,
             conditions |-> loadedRule.conditions,
             severity |-> loadedRule.severity,
             patterns |-> loadedRule.patterns], <<>>, FALSE)

\* RuleValidator.validateRules of ./ruleValidator: the try / catch drops the
\* rule that threw
validateRulesOld(readRules, outputValidation) ==
    LET kept == SelectSeq(readRules, LAMBDA r : ~makeRuleOld(r).threw)
    IN [k \in 1..Len(kept) |-> makeRuleOld(kept[k]).val]

MapRuleSeverity(severity) ==
    IF severity \in {"critical", "important", "moderate", "best-practice", "manual-review"}
    THEN severity
    ELSE "best-practice"

RuleSeverityEnabled(ruleSeverity) ==
    \/ ruleSeverity \in {"critical", "important", "moderate"}
    \/ (ruleSeverity = "best-practice" /\ Settings.enableBestPracticeRules)
    \/ (ruleSeverity = "manual-review" /\ Settings.enableManualReviewRules)

\* appliesToLangOrFile, for applies_to entries that are language ids
appliesToLangOrFile(languageID, appliesTo) ==
    IF appliesTo.isArray /\ Len(appliesTo.items) > 0
    THEN \E i \in 1..Len(appliesTo.items) : languageID = appliesTo.items[i]
    ELSE TRUE

\* what runAnalysis reads of DevSkimSuppression.isFindingCommented: the
\* directive, if any, is a comment that ends the document's line
SuppressionFinding(doc, ruleID, ruleSeverity, columnStart) ==
    LET line == [kind |-> "code", dir |-> doc.dir]
        suppressed == isFindingCommentedOld(line, <<ruleID>>,
                                            ruleSeverity = "manual-review", doc.now)
        idIndex == IndexOfSeq(MatchText(doc.dir), <<ruleID>>)
    IN [showFinding |-> suppressed,
        ruleColumn |-> IF suppressed /\ idIndex > -1
                       THEN Len(doc.text) + 1 + idIndex - columnStart
                       ELSE 0]

makeProblem(rule, warningLevel, problemRange, suppressedFindingRange, uid) ==
    [uid |-> uid, ruleId |-> <<rule.id>>, severity |-> warningLevel,
     range |-> problemRange.start, rangeEnd |-> problemRange.end,
     suppressedFindingRange |-> suppressedFindingRange,
     overrides |-> [k \in 1..Len(rule.overrides.items) |-> <<rule.overrides.items[k]>>]]

\* the body of the while loop of runAnalysis for one match
MatchProblems(rule, pattern, doc, match, problems) ==
    LET ruleSeverity == MapRuleSeverity(rule.severity)
        range == MatchRange(doc.text, match.index, match.length)
        docContentsToFinding == Substr(doc.text, 0, match.index)
        suppressionFinding ==
            SuppressionFinding(doc, rule.id, ruleSeverity, range.start.character)
        column == range.start.character + suppressionFinding.ruleColumn
    IN IF /\ ~suppressionFinding.showFinding
          /\ matchIsInScope(doc.langID, docContentsToFinding,
                            NewlineIndexOf(docContentsToFinding), pattern.scope)
       THEN Append(problems,
                   makeProblem(rule, ruleSeverity, range, NoRange, Len(problems) + 1))
       ELSE IF suppressionFinding.ruleColumn > 0
       THEN Append(problems,
                   makeProblem(rule, "warning-info",
                               RangeCreate(range.start.line, column,
                                           range.start.line, column + 1),
                               range.start, Len(problems) + 1))
       ELSE problems

\* the while loop of runAnalysis: the matches of one pattern from matchPosition
RECURSIVE ScanPattern(_, _, _, _, _)
ScanPattern(rule, pattern, doc, matchPosition, problems) ==
    Then(XRegExpExec(doc.text,
                     MakeRegex(pattern.type, <<pattern.pattern>>, pattern.modifiers),
                     matchPosition),
      LAMBDA match :
        IF ~match.found THEN problems
        ELSE Then(MatchProblems(rule, pattern, doc, match, problems), LAMBDA next :
               ScanPattern(rule, pattern, doc, match.index + match.length, next)))

\* the loop on patternIndex
RECURSIVE ScanPatterns(_, _, _, _)
ScanPatterns(rule, patternIndex, doc, problems) ==
    IF patternIndex >= Len(rule.patterns) THEN problems
    ELSE Then(ScanPattern(rule, rule.patterns[patternIndex + 1], doc, 0, problems),
           LAMBDA next : ScanPatterns(rule, patternIndex + 1, doc, next))

\* the rule takes part in the analysis of doc
RuleApplies(rule, doc) ==
    /\ \A i \in 1..Len(Settings.ignoreRulesList) : Settings.ignoreRulesList[i] # rule.id
    /\ appliesToLangOrFile(doc.langID, rule.applies_to)
    /\ RuleSeverityEnabled(MapRuleSeverity(rule.severity))

\* `rule.conditions = []`, and the same leaving the rule's overrides empty
ConditionsSetOverridesCleared(rule) ==
    [rule EXCEPT !.conditions = Arr(<<>>), !.overrides = NoArray]

\* `rule.conditions = []` on a rule object of analysisRules
ConditionsSet(rule) ==
    IF rule.conditions.isArray THEN rule ELSE [rule EXCEPT !.conditions = Arr(<<>>)]

\* the rule object after runAnalysis: the loop body ran if a pattern matched
RuleAfter(rule, doc) ==
    IF /\ RuleApplies(rule, doc)
       /\ \E i \in 1..Len(rule.patterns) :
             XRegExpExec(doc.text,
                         MakeRegex(rule.patterns[i].type, <<rule.patterns[i].pattern>>,
                                   rule.patterns[i].modifiers), 0).found
    THEN ConditionsSet(rule)
    ELSE rule

\* DevSkimWorker.runAnalysis: the loop over analysisRules
RECURSIVE runAnalysis(_, _, _, _)
runAnalysis(rules, k, doc, problems) ==
    IF k > Len(rules) THEN problems
    ELSE IF RuleApplies(rules[k], doc)
    THEN Then(ScanPatterns(rules[k], 0, doc, problems), LAMBDA next :
           runAnalysis(rules, k + 1, doc, next))
    ELSE runAnalysis(rules, k + 1, doc, problems)

\* DevSkimWorker.analyzeText, for a document that is not on the ignore list;
\* rules is analysisRules as the call leaves it
analyzeText(rules, doc) ==
    [problems |-> processOverrides(runAnalysis(rules, 1, doc, <<>>)),
     rules |-> [k \in 1..Len(rules) |-> RuleAfter(rules[k], doc)]]

\* the documents analysed: one line of code, with or without a line comment
\* and a trailing directive
\* (the time of the analysis matters to a dated directive only)
WorkerDocs ==
    { doc \in [text : {<<"a">>, <<"a", "a">>, <<"//", "a">>, <<"a", "//">>},
               dir : {NoDirective,
                      [word |-> "ignore", ids |-> <<"DS000002">>, date |-> NoDate],
                      [word |-> "reviewed", ids |-> <<"DS000002">>, date |-> NoDate],
                      [word |-> "ignore", ids |-> AllIds, date |-> 1]},
               langID : {"c", "python"},
               now : {1, MaxNow}] :
        doc.dir.date = NoDate => doc.now = 1 }

RemoveLoad(k) == [j \in 1..(Len(loads) - 1) |-> IF j < k THEN loads[j] ELSE loads[j + 1]]

\* refreshAnalysisRules -> loadRules: both arrays are emptied, a walk starts
RefreshAnalysisRules ==
    /\ loadsStarted >= 1
    /\ loadsStarted < MaxLoads
    /\ tempRules' = Arr(<<>>)
    /\ analysisRules' = <<>>
    /\ loads' = Append(loads, [read |-> 0])
    /\ loadsStarted' = loadsStarted + 1
    /\ UNCHANGED <<loadErrors, openDoc, analyses, OtherThanWk>>

\* the file callback of a walk: the next file's rules are appended to
\* tempRules; `this.tempRules.concat` of a deleted tempRules is a TypeError,
\* next() is not called and the walk ends
ReadFileCallback ==
    \E k \in 1..Len(loads) :
        /\ loads[k].read < Len(RuleFiles)
        /\ IF tempRules.isArray
           THEN /\ tempRules' = Arr(tempRules.items \o RuleFiles[loads[k].read + 1])
                /\ loads' = [loads EXCEPT ![k].read = @ + 1]
                /\ UNCHANGED loadErrors
           ELSE /\ loads' = RemoveLoad(k)
                /\ loadErrors' = Append(loadErrors, [error |-> "TypeError", file |-> 0])
                /\ UNCHANGED tempRules
        /\ UNCHANGED <<analysisRules, loadsStarted, openDoc, analyses, OtherThanWk>>

\* the file callback of a walk for a file that cannot be read (`if (err) throw
\* err`) or whose content JSON.parse rejects: the exception leaves the
\* callback, next() is not called and the walk ends
ReadFileFails ==
    \E k \in 1..Len(loads) :
        /\ loads[k].read < Len(RuleFiles)
        /\ loads' = RemoveLoad(k)
        /\ loadErrors' = Append(loadErrors,
                                [error |-> "ReadError", file |-> loads[k].read + 1])
        /\ UNCHANGED <<analysisRules, tempRules, loadsStarted, openDoc, analyses,
                       OtherThanWk>>

\* the completion callback of a walk: tempRules is validated into
\* analysisRules and deleted; iterating a deleted tempRules is a TypeError
DoneCallback ==
    \E k \in 1..Len(loads) :
        /\ loads[k].read = Len(RuleFiles)
        /\ loads' = RemoveLoad(k)
        /\ IF tempRules.isArray
           THEN /\ analysisRules' =
                      validateRulesOld(tempRules.items, Settings.validateRulesFiles)
                /\ tempRules' = NoArray
                /\ UNCHANGED loadErrors
           ELSE /\ loadErrors' = Append(loadErrors, [error |-> "TypeError", file |-> 0])
                /\ UNCHANGED <<analysisRules, tempRules>>
        /\ UNCHANGED <<loadsStarted, openDoc, analyses, OtherThanWk>>

\* analyzeText(openDoc): runs to completion between two callbacks
AnalyzeText ==
    /\ loadsStarted >= 1
    /\ Len(analyses) < MaxAnalyses
    /\ \E result \in {analyzeText(analysisRules, openDoc)} :
          /\ analyses' = Append(analyses,
                 [rules |-> analysisRules,
                  loaded |-> loadsStarted - Len(loads) - Len(loadErrors) > 0,
                  problems |-> result.problems,
                  rulesAfter |-> result.rules])
          /\ analysisRules' = result.rules
    /\ UNCHANGED <<tempRules, loads, loadsStarted, loadErrors, openDoc, OtherThanWk>>

\* the worker as its constructor leaves it: loadRules has been called once
InitWorker ==
    /\ analysisRules = <<>>
    /\ tempRules = Arr(<<>>)
    /\ loads = <<[read |-> 0]>>
    /\ loadsStarted = 1
    /\ loadErrors = <<>>
    /\ openDoc \in WorkerDocs
    /\ analyses = <<>>
    /\ AllIdleButWk

NextWorker ==
    \/ RefreshAnalysisRules
    \/ ReadFileCallback
    \/ ReadFileFails
    \/ DoneCallback
    \/ AnalyzeText

SpecWorker == InitWorker /\ [][NextWorker]_vars

\* the rules of the directory, validated, as a completed load publishes them
CompleteRules ==
    validateRulesOld(RuleFiles[1] \o RuleFiles[2], Settings.validateRulesFiles)

Unconditioned(rules) == [k \in 1..Len(rules) |-> [rules[k] EXCEPT !.conditions = NoArray]]

\* C4: once a load has completed, every analyzeText call, whatever reload is
\* in progress, reads the complete validated rule set: never an empty, an
\* unvalidated or a partly loaded one.
C4_AnalysisReadsCompleteRules ==
    \A k \in 1..Len(analyses) :
        analyses[k].loaded => Unconditioned(analyses[k].rules) = CompleteRules

\* the rules of the files other than file f, validated
RulesButFile(f) ==
    validateRulesOld((IF f = 1 THEN <<>> ELSE RuleFiles[1])
                        \o (IF f = 2 THEN <<>> ELSE RuleFiles[2]),
                     Settings.validateRulesFiles)

\* C12: when the only load made has ended and one rule file could not be read
\* or parsed, the rule set holds the validated rules of the other file.
C12_UnreadableFileSkipped ==
    (loadsStarted = 1 /\ loads = <<>> /\ Len(loadErrors) = 1
        /\ loadErrors[1].error = "ReadError")
        => Unconditioned(analysisRules) = RulesButFile(loadErrors[1].file)

\* the rule of the directory with this id, as its file declares it
DeclaredRule(ruleId) ==
    CHOOSE r \in { RuleFiles[f][i] : f \in {1, 2}, i \in {1, 2} } : <<r.id>> = ruleId

\* C13: every finding analyzeText returns comes from a rule that is declared
\* active, applies to the document's language, has an enabled severity and is
\* not in the ignored-rule list.
C13_FindingsOfActiveRules ==
    \A k \in 1..Len(analyses) :
        \A i \in 1..Len(analyses[k].problems) :
            LET rule == DeclaredRule(analyses[k].problems[i].ruleId)
            IN /\ rule.active
               /\ RuleApplies(rule, openDoc)

\* the findings of a result that are not highlights: rule id and start
FindingsOf(problems) ==
    LET found == SelectSeq(problems, LAMBDA f : f.severity # "warning-info")
    IN [i \in 1..Len(found) |-> <<found[i].ruleId, found[i].range>>]

\* the directive of the document is of the other class than the rule's and
\* names the rule's id
OtherClassDirective(doc, rule) ==
    /\ doc.dir.word = (IF MapRuleSeverity(rule.severity) = "manual-review"
                       THEN "ignore" ELSE "reviewed")
    /\ <<rule.id>> \in SplitIds(doc.dir.ids)

\* C16: a directive of the other class that names a finding's rule id
\* suppresses nothing (the findings are those of the document without it) and
\* every finding of that rule comes with a highlight-only finding of the
\* rule for the directive.
C16_OtherClassDirectiveHighlighted ==
    \A k \in 1..Len(analyses) :
        \A r \in 1..Len(analyses[k].rules) :
            OtherClassDirective(openDoc, analyses[k].rules[r]) =>
                /\ FindingsOf(analyses[k].problems)
                     = FindingsOf(analyzeText(analyses[k].rules,
                                              [openDoc EXCEPT !.dir = NoDirective]).problems)
                /\ \A i \in 1..Len(analyses[k].problems) :
                      LET f == analyses[k].problems[i]
                      IN (f.ruleId = <<analyses[k].rules[r].id>>
                            /\ f.severity # "warning-info") =>
                           \E j \in 1..Len(analyses[k].problems) :
                              /\ analyses[k].problems[j].ruleId = f.ruleId
                              /\ analyses[k].problems[j].severity = "warning-info"
                              /\ analyses[k].problems[j].suppressedFindingRange = f.range

HasLoadError(kind) == \E e \in 1..Len(loadErrors) : loadErrors[e].error = kind

\* C29: when refreshAnalysisRules has been called again and both loads have
\* ended with every file read and parsed, the active rule set holds each rule
\* of the directory exactly once and no load has failed on the temporary list.
C29_OverlappingLoadsComplete ==
    (loadsStarted = 2 /\ loads = <<>> /\ analyses = <<>> /\ ~HasLoadError("ReadError"))
        => /\ ~HasLoadError("TypeError")
           /\ analysisRules = CompleteRules


(***************************************************************************)
(* The server: validateTextDocument on one open document.  A call suspends *)
(* at `await this.getDocumentSettings(...)` and at `await                  *)
(* this.worker.analyzeText(...)`; a continuation runs to its next await    *)
(* before the next one starts, in the order they became ready.             *)
(***************************************************************************)
MaxRuns == 2
MaxVersion == 2

\* what analyzeText returns for a content of the document: its findings, each
\* with the key of its diagnostic (range and code) and its fixes
Finding(key, ruleId, fixNames) ==
    [key |-> key, ruleId |-> ruleId,
     fixes |-> [k \in 1..Len(fixNames) |-> [fixName |-> fixNames[k]]]]

DocumentFindings ==
    { <<>>,
      <<Finding("0:0-0:1 DS000001", "DS000001", <<"suppress">>)>>,
      <<Finding("0:0-0:1 DS000001", "DS000001", <<"fix", "suppress">>)>>,
      <<Finding("0:0-0:1 DS000001", "DS000001", <<"fix", "suppress">>),
        Finding("1:0-1:1 DS000002", "DS000002", <<"suppress">>)>> }

\* the loop on problems of validateTextDocument
RECURSIVE RecordProblems(_, _, _)
RecordProblems(edits, documentVersion, problems) ==
    IF problems = <<>> THEN edits
    ELSE RecordProblems(RecordFixes(edits, documentVersion, Head(problems).key,
                                    Head(problems).fixes, Head(problems).ruleId),
                        documentVersion, Tail(problems))

\* a call of validateTextDocument as it is entered: it awaits the settings
EnteredRun == [pc |-> "settings", problems |-> <<>>, version |-> 0]

\* onRequestValidateDocsRequest, onDidChangeConfiguration:
\* validateTextDocument is called on the open document
ValidateTextDocument ==
    /\ srvDocument.version >= 1
    /\ microtasks = <<>>
    /\ Len(runs) < MaxRuns
    /\ runs' = Append(runs, EnteredRun)
    /\ UNCHANGED <<srvDocument, codeActions, microtasks, OtherThanSrv>>

\* onDidChangeContent: the document has a new version and a new content, and
\* validateTextDocument is called on it
DidChangeContent ==
    /\ srvDocument.version >= 1
    /\ srvDocument.version < MaxVersion
    /\ microtasks = <<>>
    /\ Len(runs) < MaxRuns
    /\ \E problems \in DocumentFindings :
          srvDocument' = [version |-> srvDocument.version + 1, problems |-> problems]
    /\ runs' = Append(runs, EnteredRun)
    /\ UNCHANGED <<codeActions, microtasks, OtherThanSrv>>

\* the run indices of set S, increasing
RECURSIVE InOrder(_)
InOrder(S) ==
    IF S = {} THEN <<>>
    ELSE LET least == CHOOSE k \in S : \A j \in S : k <= j
         IN <<least>> \o InOrder(S \ {least})

\* the settings requested by some of the waiting calls arrive: their
\* continuations become ready, in the order of the calls
SettingsResolved ==
    /\ microtasks = <<>>
    /\ \E S \in SUBSET { k \in 1..Len(runs) : runs[k].pc = "settings" } :
          /\ S # {}
          /\ microtasks' = InOrder(S)
          /\ runs' = [k \in 1..Len(runs) |->
                        IF k \in S THEN [runs[k] EXCEPT !.pc = "settled"] ELSE runs[k]]
    /\ UNCHANGED <<srvDocument, codeActions, OtherThanSrv>>

\* the continuation after the first await: the map of the document is
\* deleted, the document is analysed and the call awaits the result
ResumeAfterSettings ==
    /\ microtasks # <<>>
    /\ runs[Head(microtasks)].pc = "settled"
    /\ codeActions' = NoEdits
    /\ runs' = [runs EXCEPT ![Head(microtasks)] =
                   [pc |-> "analysis", problems |-> srvDocument.problems, version |-> 0]]
    /\ microtasks' = Append(Tail(microtasks), Head(microtasks))
    /\ UNCHANGED <<srvDocument, OtherThanSrv>>

\* the continuation after the second await: the fixes of every problem are
\* recorded under the version the document has now
ResumeAfterAnalysis ==
    /\ microtasks # <<>>
    /\ runs[Head(microtasks)].pc = "analysis"
    /\ codeActions' = RecordProblems(codeActions, srvDocument.version,
                                     runs[Head(microtasks)].problems)
    /\ runs' = [runs EXCEPT ![Head(microtasks)].pc = "done",
                            ![Head(microtasks)].version = srvDocument.version]
    /\ microtasks' = Tail(microtasks)
    /\ UNCHANGED <<srvDocument, OtherThanSrv>>

\* the server with one document open: onDidChangeContent has been raised for
\* the opened document and has called validateTextDocument
InitServer ==
    /\ \E problems \in DocumentFindings :
          srvDocument = [version |-> 1, problems |-> problems]
    /\ codeActions = NoEdits
    /\ runs = <<EnteredRun>>
    /\ microtasks = <<>>
    /\ AllIdleButSrv

NextServer ==
    \/ ValidateTextDocument
    \/ DidChangeContent
    \/ SettingsResolved
    \/ ResumeAfterSettings
    \/ ResumeAfterAnalysis

SpecServer == InitServer /\ [][NextServer]_vars

\* C30: when every validateTextDocument call made for the document has
\* completed, the code-action map of the document is what one of the calls
\* alone records for its analysis: no fix twice, none of another analysis.
C30_OneAnalysisRecorded ==
    (runs # <<>> /\ \A k \in 1..Len(runs) : runs[k].pc = "done")
        => \E k \in 1..Len(runs) :
              codeActions = RecordProblems(NoEdits, runs[k].version, runs[k].problems)

============================================================================
